---- MODULE Spec2Model ----
(***************************************************************************)
(* A model of mcp-hack's parameter building, target resolution and tool    *)
(* invocation pipeline (src/src/cmd/exec.rs, fuzz.rs, shared.rs, list.rs,  *)
(* src/src/main.rs, src/src/mcp/mod.rs).                                   *)
(*                                                                         *)
(* Strings are sequences of symbols.  A symbol is a one-character string;  *)
(* the fixed texts of messages are kept as one multi-character symbol      *)
(* each.  The names used as inputs are built from characters that occur    *)
(* in none of the fixed texts, so a substring test on the symbol sequence  *)
(* agrees with the substring test on the real text.                        *)
(***************************************************************************)
EXTENDS Integers, Sequences, FiniteSets, TLC

(* ------------------------------------------------------------------ *)
(* Option values                                                       *)
(* ------------------------------------------------------------------ *)

None == [some |-> FALSE]

Some(v) == [some |-> TRUE, v |-> v]

(* ------------------------------------------------------------------ *)
(* str helpers (Rust std)                                              *)
(* ------------------------------------------------------------------ *)

IsWhitespace(c) == c \in {" ", "\t", "\n"}

RECURSIVE TrimStart(_)
TrimStart(s) ==
    IF s = <<>> THEN <<>>
    ELSE IF IsWhitespace(Head(s)) THEN TrimStart(Tail(s)) ELSE s

RECURSIVE TrimEnd(_)
TrimEnd(s) ==
    IF s = <<>> THEN <<>>
    ELSE IF IsWhitespace(s[Len(s)]) THEN TrimEnd(SubSeq(s, 1, Len(s) - 1)) ELSE s

\* str::trim
Trim(s) == TrimEnd(TrimStart(s))

\* str::starts_with
StartsWith(s, p) == Len(p) <= Len(s) /\ SubSeq(s, 1, Len(p)) = p

\* s has p as a substring
Contains(s, p) == \E k \in 1..(Len(s) + 1) : StartsWith(SubSeq(s, k, Len(s)), p)

\* a replacement of the first match only
RECURSIVE ReplaceFirst(_, _, _)
ReplaceFirst(s, from, to) ==
    IF from = <<>> THEN to \o s
    ELSE IF s = <<>> THEN <<>>
    ELSE IF StartsWith(s, from) THEN to \o SubSeq(s, Len(from) + 1, Len(s))
    ELSE <<Head(s)>> \o ReplaceFirst(Tail(s), from, to)

\* str::replace: every non-overlapping match, left to right; an empty
\* pattern matches before every character and at the end.
RECURSIVE Replace(_, _, _)
Replace(s, from, to) ==
    IF from = <<>>
    THEN IF s = <<>> THEN to ELSE to \o <<Head(s)>> \o Replace(Tail(s), from, to)
    ELSE IF s = <<>> THEN <<>>
    ELSE IF StartsWith(s, from)
         THEN to \o Replace(SubSeq(s, Len(from) + 1, Len(s)), from, to)
         ELSE <<Head(s)>> \o Replace(Tail(s), from, to)

\* position of the first occurrence of character c, 0 when there is none
RECURSIVE Find(_, _)
Find(s, c) ==
    IF s = <<>> THEN 0
    ELSE IF Head(s) = c THEN 1
    ELSE LET r == Find(Tail(s), c) IN IF r = 0 THEN 0 ELSE r + 1

\* str::split_once
SplitOnce(s, c) ==
    LET p == Find(s, c) IN
    IF p = 0 THEN None
    ELSE Some([k |-> SubSeq(s, 1, p - 1), v |-> SubSeq(s, p + 1, Len(s))])

Upper == <<"A","B","C","D","E","F","G","H","I","J","K","L","M",
           "N","O","P","Q","R","S","T","U","V","W","X","Y","Z">>

Lower == <<"a","b","c","d","e","f","g","h","i","j","k","l","m",
           "n","o","p","q","r","s","t","u","v","w","x","y","z">>

ToAsciiLowerChar(c) ==
    IF \E k \in 1..26 : Upper[k] = c
    THEN Lower[CHOOSE k \in 1..26 : Upper[k] = c]
    ELSE c

\* str::to_ascii_lowercase
\* a conversion that keeps the case
KeepCase(s) == s

\* str::to_ascii_lowercase
ToAsciiLowercase(s) == [k \in 1..Len(s) |-> ToAsciiLowerChar(s[k])]

\* str::eq_ignore_ascii_case
EqIgnoreAsciiCase(a, b) == ToAsciiLowercase(a) = ToAsciiLowercase(b)

\* str::split(',') followed by trim of every piece
RECURSIVE SplitTrim(_, _)
SplitTrim(s, c) ==
    LET p == Find(s, c) IN
    IF p = 0 THEN <<Trim(s)>>
    ELSE <<Trim(SubSeq(s, 1, p - 1))>> \o SplitTrim(SubSeq(s, p + 1, Len(s)), c)

(* ------------------------------------------------------------------ *)
(* anyhow::Error: the chain of messages, outermost context first       *)
(* ------------------------------------------------------------------ *)

\* anyhow::anyhow! / bail!
Err(msg) == [ok |-> FALSE, chain |-> <<msg>>]

Ok(v) == [ok |-> TRUE, v |-> v]

\* Result::context / with_context: wraps the error, leaves Ok alone
WithContext(r, msg) ==
    IF r.ok THEN r ELSE [ok |-> FALSE, chain |-> <<msg>> \o r.chain]

\* Display of an anyhow::Error ("{}"): the outermost message only
ErrToString(e) == Head(e.chain)

(* ------------------------------------------------------------------ *)
(* serde_json values and maps                                          *)
(* ------------------------------------------------------------------ *)

JNull == [t |-> "null"]

JBool(b) == [t |-> "bool", b |-> b]

\* a number that is an integer, kept as its canonical decimal text
JInt(text) == [t |-> "int", n |-> text]

\* a finite f64, kept as its shortest decimal text
JFloat(text) == [t |-> "float", f |-> text]

JString(s) == [t |-> "string", s |-> s]

JArray(a) == [t |-> "array", a |-> a]

\* Value::as_str
AsStr(v) == IF v.t = "string" THEN Some(v.s) ELSE None

EmptyMap == [k \in {} |-> <<>>]

\* HashMap::insert / serde_json::Map::insert
MapInsert(m, k, v) == [x \in (DOMAIN m) \cup {k} |-> IF x = k THEN v ELSE m[x]]

\* HashMap::remove
MapRemove(m, k) == [x \in (DOMAIN m) \ {k} |-> m[x]]

ContainsKey(m, k) == k \in DOMAIN m

\* Value::get on the fields the program reads; None on a non-object
GetName(v) == IF v.t = "object" THEN v.name ELSE None

\* Option<&Value>::and_then(Value::as_object)
AsObject(o) == IF o.some /\ o.v.t = "object" THEN o ELSE None

(* ------------------------------------------------------------------ *)
(* str::parse::<i64>                                                   *)
(* ------------------------------------------------------------------ *)

DigitVal(c) ==
    CASE c = "0" -> 0 [] c = "1" -> 1 [] c = "2" -> 2 [] c = "3" -> 3
      [] c = "4" -> 4 [] c = "5" -> 5 [] c = "6" -> 6 [] c = "7" -> 7
      [] c = "8" -> 8 [] c = "9" -> 9 [] OTHER -> -1

IsDigits(s) == \A k \in 1..Len(s) : DigitVal(s[k]) >= 0

RECURSIVE StripZeros(_)
StripZeros(s) ==
    IF s = <<>> THEN <<>>
    ELSE IF Head(s) = "0" THEN StripZeros(Tail(s)) ELSE s

\* a <= b for digit strings of equal length
RECURSIVE DigitsLeq(_, _)
DigitsLeq(a, b) ==
    IF a = <<>> THEN TRUE
    ELSE IF DigitVal(Head(a)) < DigitVal(Head(b)) THEN TRUE
    ELSE IF DigitVal(Head(a)) > DigitVal(Head(b)) THEN FALSE
    ELSE DigitsLeq(Tail(a), Tail(b))

\* i64::MAX = 9223372036854775807 and the magnitude of i64::MIN
I64MaxDigits == <<"9","2","2","3","3","7","2","0","3","6","8","5","4","7","7","5","8","0","7">>

I64MinDigits == <<"9","2","2","3","3","7","2","0","3","6","8","5","4","7","7","5","8","0","8">>

\* a parse of an optional sign and digits that has no range
ParseIntUnbounded(s) ==
    LET neg  == s # <<>> /\ Head(s) = "-"
        sign == s # <<>> /\ Head(s) \in {"+", "-"}
        body == IF sign THEN Tail(s) ELSE s
        mag  == StripZeros(body)
    IN  IF body = <<>> \/ ~IsDigits(body) THEN None
        ELSE IF mag = <<>> THEN Some(<<"0">>)
        ELSE IF neg THEN Some(<<"-">> \o mag)
        ELSE Some(mag)

\* Some(canonical decimal text) when s is an optional sign followed by at
\* least one digit and the value fits 64 bits, None otherwise
ParseI64(s) ==
    LET neg  == s # <<>> /\ Head(s) = "-"
        sign == s # <<>> /\ Head(s) \in {"+", "-"}
        body == IF sign THEN Tail(s) ELSE s
        mag  == StripZeros(body)
        lim  == IF neg THEN I64MinDigits ELSE I64MaxDigits
        fits == Len(mag) < Len(lim) \/ (Len(mag) = Len(lim) /\ DigitsLeq(mag, lim))
    IN  IF body = <<>> \/ ~IsDigits(body) \/ ~fits THEN None
        ELSE IF mag = <<>> THEN Some(<<"0">>)
        ELSE IF neg THEN Some(<<"-">> \o mag)
        ELSE Some(mag)

(* ------------------------------------------------------------------ *)
(* str::parse::<f64> followed by serde_json::Number::from_f64          *)
(* ------------------------------------------------------------------ *)

\* number of leading decimal digits
RECURSIVE SpanDigits(_)
SpanDigits(s) ==
    IF s = <<>> \/ DigitVal(Head(s)) < 0 THEN 0 ELSE 1 + SpanDigits(Tail(s))

Drop(s, n) == SubSeq(s, n + 1, Len(s))

\* value of a short digit string; ExpCap stands for every larger value
ExpCap == 100000

RECURSIVE DigitsValue(_, _)
DigitsValue(s, acc) ==
    IF s = <<>> THEN acc
    ELSE IF acc >= ExpCap THEN ExpCap
    ELSE DigitsValue(Tail(s), 10 * acc + DigitVal(Head(s)))

\* the 17 significant digits of f64::MAX = 1.7976931348623157e308
F64MaxDigits == <<"1","7","9","7","6","9","3","1","3","4","8","6","2","3","1","5","7">>

F64MaxExp == 308

\* the sign and digits of an exponent: None when there is no digit
F64ExpValue(d, neg) ==
    IF d = <<>> \/ ~IsDigits(d) THEN None
    ELSE Some(IF neg THEN 0 - DigitsValue(d, 0) ELSE DigitsValue(d, 0))

\* what follows the mantissa: nothing (exponent 0), or e / E with an
\* optionally signed exponent; None for anything else
F64Exponent(r) ==
    IF r = <<>> THEN Some(0)
    ELSE IF Head(r) \notin {"e", "E"} THEN None
    ELSE IF Tail(r) # <<>> /\ Head(Tail(r)) \in {"+", "-"}
    THEN F64ExpValue(Tail(Tail(r)), Head(Tail(r)) = "-")
    ELSE F64ExpValue(Tail(r), FALSE)

\* whether mantissa digits all (nInt of them before the point) times
\* 10^e fits an f64 (mantissas of at most 17 significant digits)
F64Magnitude(all, nInt, e) ==
    LET sig == StripZeros(all)
        x   == (nInt - (Len(all) - Len(sig)) - 1) + e
    IN  IF sig = <<>> THEN "finite"
        ELSE IF x < F64MaxExp THEN "finite"
        ELSE IF x = F64MaxExp
                /\ Len(sig) <= Len(F64MaxDigits)
                /\ DigitsLeq(sig, SubSeq(F64MaxDigits, 1, Len(sig)))
             THEN "finite"
        ELSE "nonfinite"

\* body has nInt integer digits; r2 is what follows them and the point,
\* and starts with nFrac fraction digits
F64Decimal(body, nInt, r2, nFrac) ==
    LET e == F64Exponent(Drop(r2, nFrac)) IN
    IF nInt + nFrac = 0 THEN "nomantissa"
    ELSE IF ~e.some THEN "error"
    ELSE F64Magnitude(SubSeq(body, 1, nInt) \o SubSeq(r2, 1, nFrac), nInt, e.v)

F64Fraction(body, nInt, r1) ==
    IF r1 # <<>> /\ Head(r1) = "."
    THEN F64Decimal(body, nInt, Tail(r1), SpanDigits(Tail(r1)))
    ELSE F64Decimal(body, nInt, r1, 0)

\* a literal without its sign: a decimal, or inf / infinity / nan
F64Unsigned(body) ==
    LET d == F64Fraction(body, SpanDigits(body), Drop(body, SpanDigits(body))) IN
    IF d # "nomantissa" THEN d
    ELSE IF ToAsciiLowercase(body) \in { <<"n","a","n">>, <<"i","n","f">>,
                                         <<"i","n","f","i","n","i","t","y">> }
    THEN "nonfinite"
    ELSE "error"

\* "error" when s is not a float literal, "nonfinite" for inf / nan and
\* for a literal that overflows, "finite" otherwise
ParseF64(s) ==
    IF s # <<>> /\ Head(s) \in {"+", "-"} THEN F64Unsigned(Tail(s)) ELSE F64Unsigned(s)

(* ------------------------------------------------------------------ *)
(* cmd/shared.rs                                                       *)
(* ------------------------------------------------------------------ *)

coerce_value(raw, type_hint) ==
    CASE type_hint = "integer" ->
            LET n == ParseI64(raw) IN IF n.some THEN JInt(n.v) ELSE JString(raw)
      [] type_hint = "number" ->
            IF ParseF64(raw) = "finite" THEN JFloat(raw) ELSE JString(raw)
      [] type_hint = "boolean" ->
            LET l == ToAsciiLowercase(raw) IN
            IF l \in { <<"t","r","u","e">>, <<"1">>, <<"y","e","s">>, <<"y">> }
            THEN JBool(TRUE)
            ELSE IF l \in { <<"f","a","l","s","e">>, <<"0">>, <<"n","o">>, <<"n">> }
            THEN JBool(FALSE)
            ELSE JString(raw)
      [] type_hint = "array" ->
            LET parts == SplitTrim(raw, ",") IN
            JArray([k \in 1..Len(parts) |-> JString(parts[k])])
      [] OTHER -> JString(raw)

\* tool_obj.get("input_schema").or_else(|| tool_obj.get("inputSchema"))
\*         .and_then(|v| v.as_object())
SchemaBothKeys(tool_obj) ==
    AsObject(IF tool_obj.input_schema.some THEN tool_obj.input_schema
             ELSE tool_obj.inputSchema)

\* a required set that is always empty
NoRequiredNames(schema) == {}

\* the strings of schema.required, the empty set without a schema or array
RequiredNames(schema) ==
    IF schema.some /\ schema.v.required.some /\ schema.v.required.v.t = "array"
    THEN LET a == schema.v.required.v.a IN
         { a[k].s : k \in { j \in 1..Len(a) : a[j].t = "string" } }
    ELSE {}

\* the entries of schema.properties in iteration order, Some only for an object
SchemaProperties(schema) ==
    IF schema.some /\ schema.v.properties.some /\ schema.v.properties.v.t = "object"
    THEN Some(schema.v.properties.v.entries)
    ELSE None

\* pobj.as_object().and_then(|m| m.get("type")).and_then(|v| v.as_str())
\*     .unwrap_or("string")
PropertyType(pobj) ==
    IF pobj.t = "object" /\ pobj.type.some THEN pobj.type.v ELSE "string"

\* the loop over the declared properties
RECURSIVE BuildDeclared(_, _, _, _)
BuildDeclared(props, remaining, result, required) ==
    IF props = <<>> THEN Ok([remaining |-> remaining, result |-> result])
    ELSE LET pname == Head(props).k
             ptype == PropertyType(Head(props).v)
         IN  IF ContainsKey(remaining, pname)
             THEN BuildDeclared(Tail(props), MapRemove(remaining, pname),
                                MapInsert(result, pname,
                                          coerce_value(remaining[pname], ptype)),
                                required)
             ELSE IF pname \in required
             THEN Err(<<"missing required parameter: ">> \o pname)
             ELSE BuildDeclared(Tail(props), remaining, result, required)

\* a last step that leaves the leftovers out
DropLeftovers(remaining, result) == result

\* the leftovers not in the schema are added as plain strings
AddLeftovers(remaining, result) ==
    [k \in (DOMAIN result) \cup (DOMAIN remaining) |->
        IF k \in DOMAIN remaining THEN JString(remaining[k]) ELSE result[k]]

build_arguments_from_schema(tool_obj, provided) ==
    LET schema   == SchemaBothKeys(tool_obj)
        required == RequiredNames(schema)
        props    == SchemaProperties(schema)
        r        == BuildDeclared(IF props.some THEN props.v ELSE <<>>,
                                  provided, EmptyMap, required)
    IN  IF r.ok THEN Ok(AddLeftovers(r.v.remaining, r.v.result)) ELSE r

\* value.get("tools")?.as_array()?
ToolsArray(value) ==
    IF value.t = "object" /\ value.tools.some /\ value.tools.v.t = "array"
    THEN Some(value.tools.v.a) ELSE None

\* a comparison of the tool's name with name that is case-sensitive
NameMatchesExact(t, name) ==
    LET n == GetName(t) IN
    n.some /\ AsStr(n.v).some /\ AsStr(n.v).v = name

\* the test of find_tool_case_insensitive on one tool of the listing
NameMatches(t, name) ==
    LET n == GetName(t) IN
    n.some /\ AsStr(n.v).some /\ EqIgnoreAsciiCase(AsStr(n.v).v, name)

find_tool_case_insensitive(value, name) ==
    LET arr == ToolsArray(value) IN
    IF ~arr.some THEN None
    ELSE LET hits == { k \in 1..Len(arr.v) : NameMatches(arr.v[k], name) } IN
         IF hits = {} THEN None
         ELSE Some(arr.v[CHOOSE k \in hits : \A j \in hits : k <= j])

\* serde_json::to_value(&call_result).unwrap_or_else(stub): payload is the
\* outcome of the serialization, Some(json) or None when it fails
summarize_call_result(call_result) ==
    IF call_result.json.some THEN call_result.json.v
    ELSE [t |-> "object", note |-> "unable to serialize result"]

(* ------------------------------------------------------------------ *)
(* cmd/exec.rs: parameter file                                         *)
(* ------------------------------------------------------------------ *)

\* str::ends_with
EndsWith(s, p) == Len(p) <= Len(s) /\ SubSeq(s, Len(s) - Len(p) + 1, Len(s)) = p

\* the escapes serde_json writes inside a string
RECURSIVE JsonEscape(_)
JsonEscape(s) ==
    IF s = <<>> THEN <<>>
    ELSE (IF Head(s) \in {"\"", "\\"} THEN <<"\\", Head(s)>> ELSE <<Head(s)>>)
         \o JsonEscape(Tail(s))

\* Display of a serde_json::Value: compact JSON text
RECURSIVE JsonText(_)
RECURSIVE JsonJoin(_, _)
RECURSIVE JsonFields(_, _)
JsonJoin(a, k) ==
    IF k > Len(a) THEN <<>>
    ELSE (IF k > 1 THEN <<",">> ELSE <<>>) \o JsonText(a[k]) \o JsonJoin(a, k + 1)

JsonFields(entries, k) ==
    IF k > Len(entries) THEN <<>>
    ELSE (IF k > 1 THEN <<",">> ELSE <<>>)
         \o <<"\"">> \o JsonEscape(entries[k].k) \o <<"\"", ":">>
         \o JsonText(entries[k].v) \o JsonFields(entries, k + 1)

JsonText(v) ==
    CASE v.t = "null"   -> <<"n","u","l","l">>
      [] v.t = "bool"   -> IF v.b THEN <<"t","r","u","e">> ELSE <<"f","a","l","s","e">>
      [] v.t = "int"    -> v.n
      [] v.t = "float"  -> v.f
      [] v.t = "string" -> <<"\"">> \o JsonEscape(v.s) \o <<"\"">>
      [] v.t = "array"  -> <<"[">> \o JsonJoin(v.a, 1) \o <<"]">>
      [] v.t = "object" -> <<"{">> \o JsonFields(v.entries, 1) \o <<"}">>

\* MergeEntries without the match on Value::String: every value goes
\* through to_string, so that a string keeps its quotes
RECURSIVE MergeEntriesAllToString(_, _)
MergeEntriesAllToString(entries, provided) ==
    IF entries = <<>> THEN provided
    ELSE LET k == Head(entries).k
             v == Head(entries).v
         IN  IF ContainsKey(provided, k)
             THEN MergeEntriesAllToString(Tail(entries), provided)
             ELSE MergeEntriesAllToString(Tail(entries),
                                          MapInsert(provided, k, JsonText(v)))

\* the loop over the entries of the file's root object
RECURSIVE MergeEntries(_, _)
MergeEntries(entries, provided) ==
    IF entries = <<>> THEN provided
    ELSE LET k == Head(entries).k
             v == Head(entries).v
         IN  IF ContainsKey(provided, k)
             THEN MergeEntries(Tail(entries), provided)
             ELSE MergeEntries(Tail(entries),
                               MapInsert(provided, k,
                                         IF v.t = "string" THEN v.s ELSE JsonText(v)))

\* a load that empties the map before it reads the file
load_param_file_clearing_first(path, fs, provided) ==
    LET lower  == ToAsciiLowercase(path)
        isYaml == EndsWith(lower, <<".","y","a","m","l">>)
                  \/ EndsWith(lower, <<".","y","m","l">>)
        value  == IF isYaml THEN fs.yaml ELSE fs.json
    IN  IF ~fs.readable \/ value.k # "ok" \/ value.v.t # "object"
        THEN [res |-> Err(<<"param file error">>), provided |-> EmptyMap]
        ELSE [res |-> Ok(TRUE), provided |-> MergeEntries(value.v.entries, provided)]

\* fs: what reading and parsing the file at path gives.  The result is
\* the returned Result together with the map as the call leaves it.
load_param_file_into_map(path, fs, provided) ==
    LET lower  == ToAsciiLowercase(path)
        isYaml == EndsWith(lower, <<".","y","a","m","l">>)
                  \/ EndsWith(lower, <<".","y","m","l">>)
        fail(e) == [res |-> e, provided |-> provided]
    IN  IF ~fs.readable
        THEN fail(WithContext(Err(<<"os error">>),
                              <<"failed to read param file: ">> \o path))
        ELSE IF isYaml /\ fs.yaml.k = "parse_err"
        THEN fail(WithContext(Err(<<"yaml error">>), <<"failed to parse YAML param file">>))
        ELSE IF isYaml /\ fs.yaml.k = "conv_err"
        THEN fail(WithContext(Err(<<"json error">>), <<"failed to convert YAML to JSON">>))
        ELSE IF ~isYaml /\ fs.json.k = "parse_err"
        THEN fail(WithContext(Err(<<"json error">>), <<"failed to parse JSON param file">>))
        ELSE LET value == IF isYaml THEN fs.yaml.v ELSE fs.json.v IN
             IF value.t # "object"
             THEN fail(Err(<<"param file root must be an object">>))
             ELSE [res |-> Ok(TRUE), provided |-> MergeEntries(value.entries, provided)]

(* ------------------------------------------------------------------ *)
(* mcp/mod.rs: parse_target, with the url and shell_words crates       *)
(* ------------------------------------------------------------------ *)

IsAlpha(c) == \E k \in 1..26 : Upper[k] = c \/ Lower[k] = c

IsSchemeChar(c) == IsAlpha(c) \/ DigitVal(c) >= 0 \/ c \in {"+", "-", "."}

\* length of the scheme of s (the characters before the first ":"), 0 when
\* s does not start with a scheme
SchemeLen(s) ==
    LET p == Find(s, ":") IN
    IF p > 1 /\ IsAlpha(s[1]) /\ \A k \in 1..(p - 1) : IsSchemeChar(s[k])
    THEN p - 1 ELSE 0

RECURSIVE SkipSlashes(_)
SkipSlashes(s) ==
    IF s # <<>> /\ Head(s) \in {"/", "\\"} THEN SkipSlashes(Tail(s)) ELSE s

\* the authority: up to the first "/", "\", "?" or "#"
RECURSIVE TakeAuthority(_)
TakeAuthority(s) ==
    IF s = <<>> \/ Head(s) \in {"/", "\\", "?", "#"} THEN <<>>
    ELSE <<Head(s)>> \o TakeAuthority(Tail(s))

\* position of the last occurrence of c, 0 when there is none
LastFind(s, c) ==
    IF \E k \in 1..Len(s) : s[k] = c
    THEN CHOOSE k \in 1..Len(s) : s[k] = c /\ \A j \in (k + 1)..Len(s) : s[j] # c
    ELSE 0

ForbiddenHostChar(c) ==
    c \in {" ", "#", "%", "/", ":", "<", ">", "?", "@", "[", "\\", "]", "^", "|"}

MaxPort == 65535

\* host and port of an authority without its userinfo
UrlHostPort(scheme, hostp, colon) ==
    LET host == IF colon = 0 THEN hostp ELSE SubSeq(hostp, 1, colon - 1)
        port == IF colon = 0 THEN <<>> ELSE Drop(hostp, colon)
    IN  IF host = <<>> \/ \E k \in 1..Len(host) : ForbiddenHostChar(host[k])
        THEN None
        ELSE IF ~IsDigits(port) \/ DigitsValue(port, 0) > MaxPort
        THEN None
        ELSE Some(scheme)

UrlAuthority(scheme, hostp) == UrlHostPort(scheme, hostp, Find(hostp, ":"))

UrlAfterScheme(scheme, auth) == UrlAuthority(scheme, Drop(auth, LastFind(auth, "@")))

\* a scheme test that accepts every scheme
UrlWithAnyScheme(s, n) ==
    IF n = 0 THEN None
    ELSE UrlAfterScheme(ToAsciiLowercase(SubSeq(s, 1, n)),
                        TakeAuthority(SkipSlashes(Drop(s, n + 1))))

UrlWithScheme(s, n) ==
    IF n = 0 THEN None
    ELSE IF ToAsciiLowercase(SubSeq(s, 1, n)) \notin
               { <<"h","t","t","p">>, <<"h","t","t","p","s">>, <<"w","s">>, <<"w","s","s">> }
    THEN None
    ELSE UrlAfterScheme(ToAsciiLowercase(SubSeq(s, 1, n)),
                        TakeAuthority(SkipSlashes(Drop(s, n + 1))))

\* Url::parse(s) followed by url.scheme(), for the four schemes parse_target
\* accepts: Some(scheme) when s parses as a URL of that scheme, None when
\* it does not parse or has another scheme
RemoteScheme(s) == UrlWithScheme(s, SchemeLen(s))

\* the grave accent character, written as a named symbol
Backtick == "grave"

\* shell_words::split: st is the state of its scanner, word the token
\* being built, words the finished tokens
RECURSIVE ShellScan(_, _, _, _)
ShellScan(s, st, word, words) ==
    IF s = <<>>
    THEN CASE st \in {"Delimiter", "Comment"} -> Ok(words)
           [] st \in {"Backslash", "UnquotedBackslash"} ->
                 Ok(Append(words, Append(word, "\\")))
           [] st = "Unquoted" -> Ok(Append(words, word))
           [] OTHER -> Err(<<"missing closing quote">>)
    ELSE LET c == Head(s)
             r == Tail(s)
         IN CASE st = "Delimiter" ->
                 (CASE c = "'" -> ShellScan(r, "SingleQuoted", word, words)
                    [] c = "\"" -> ShellScan(r, "DoubleQuoted", word, words)
                    [] c = "\\" -> ShellScan(r, "Backslash", word, words)
                    [] IsWhitespace(c) -> ShellScan(r, "Delimiter", word, words)
                    [] c = "#" -> ShellScan(r, "Comment", word, words)
                    [] OTHER -> ShellScan(r, "Unquoted", Append(word, c), words))
              [] st = "Backslash" ->
                 IF c = "\n" THEN ShellScan(r, "Delimiter", word, words)
                 ELSE ShellScan(r, "Unquoted", Append(word, c), words)
              [] st = "Unquoted" ->
                 (CASE c = "'" -> ShellScan(r, "SingleQuoted", word, words)
                    [] c = "\"" -> ShellScan(r, "DoubleQuoted", word, words)
                    [] c = "\\" -> ShellScan(r, "UnquotedBackslash", word, words)
                    [] IsWhitespace(c) ->
                          ShellScan(r, "Delimiter", <<>>, Append(words, word))
                    [] OTHER -> ShellScan(r, "Unquoted", Append(word, c), words))
              [] st = "UnquotedBackslash" ->
                 IF c = "\n" THEN ShellScan(r, "Unquoted", word, words)
                 ELSE ShellScan(r, "Unquoted", Append(word, c), words)
              [] st = "SingleQuoted" ->
                 IF c = "'" THEN ShellScan(r, "Unquoted", word, words)
                 ELSE ShellScan(r, "SingleQuoted", Append(word, c), words)
              [] st = "DoubleQuoted" ->
                 (CASE c = "\"" -> ShellScan(r, "Unquoted", word, words)
                    [] c = "\\" -> ShellScan(r, "DoubleQuotedBackslash", word, words)
                    [] OTHER -> ShellScan(r, "DoubleQuoted", Append(word, c), words))
              [] st = "DoubleQuotedBackslash" ->
                 (CASE c = "\n" -> ShellScan(r, "DoubleQuoted", word, words)
                    [] c \in {"$", Backtick, "\"", "\\"} ->
                          ShellScan(r, "DoubleQuoted", Append(word, c), words)
                    [] OTHER ->
                          ShellScan(r, "DoubleQuoted", Append(Append(word, "\\"), c), words))
              [] st = "Comment" ->
                 IF c = "\n" THEN ShellScan(r, "Delimiter", word, words)
                 ELSE ShellScan(r, "Comment", word, words)

shell_split(s) == ShellScan(s, "Delimiter", <<>>, <<>>)

\* str::split_whitespace: the words between runs of whitespace
RECURSIVE SplitWhitespace(_, _, _)
SplitWhitespace(s, word, words) ==
    IF s = <<>> THEN (IF word = <<>> THEN words ELSE Append(words, word))
    ELSE IF IsWhitespace(Head(s))
    THEN SplitWhitespace(Tail(s), <<>>, IF word = <<>> THEN words ELSE Append(words, word))
    ELSE SplitWhitespace(Tail(s), Append(word, Head(s)), words)

\* a parse_target whose local command line is split at whitespace only
parse_target_split_whitespace(raw) ==
    LET trimmed == Trim(raw)
        remote  == RemoteScheme(trimmed)
        parts   == SplitWhitespace(trimmed, <<>>, <<>>)
    IN  IF trimmed = <<>> THEN Err(<<"Target string is empty">>)
        ELSE IF remote.some
        THEN Ok([variant |-> "RemoteUrl", original |-> raw, scheme |-> remote.v])
        ELSE Ok([variant |-> "LocalCommand", original |-> raw,
                 program |-> Head(parts), args |-> Tail(parts)])

parse_target(raw) ==
    LET trimmed == Trim(raw)
        remote  == RemoteScheme(trimmed)
        parts   == WithContext(shell_split(trimmed),
                       <<"Failed to parse local command line (shell splitting)">>)
    IN  IF trimmed = <<>> THEN Err(<<"Target string is empty">>)
        ELSE IF remote.some
        THEN Ok([variant |-> "RemoteUrl", original |-> raw, scheme |-> remote.v])
        ELSE IF ~parts.ok THEN parts
        ELSE IF parts.v = <<>>
        THEN Err(<<"No tokens produced when parsing local command target">>)
        ELSE IF Head(parts.v) = <<>>
        THEN Err(<<"Empty program name in local command target">>)
        ELSE Ok([variant |-> "LocalCommand", original |-> raw,
                 program |-> Head(parts.v), args |-> Tail(parts.v)])

\* a kind that knows the http schemes only
kind_http_only(spec) ==
    IF spec.variant = "LocalCommand" THEN "LocalProcess"
    ELSE IF spec.scheme \in { <<"h","t","t","p">>, <<"h","t","t","p","s">> } THEN "RemoteHttp"
    ELSE "Unknown"

\* TargetSpec::kind
kind(spec) ==
    IF spec.variant = "LocalCommand" THEN "LocalProcess"
    ELSE IF spec.scheme \in { <<"h","t","t","p">>, <<"h","t","t","p","s">> } THEN "RemoteHttp"
    ELSE IF spec.scheme \in { <<"w","s">>, <<"w","s","s">> } THEN "RemoteWs"
    ELSE "Unknown"

is_remote(spec) == kind(spec) \in {"RemoteHttp", "RemoteWs"}

is_local(spec) == kind(spec) = "LocalProcess"

(* ------------------------------------------------------------------ *)
(* Bounds and input domains                                            *)
(* ------------------------------------------------------------------ *)

\* longest wordlist of a fuzz run
MaxWords == 2

\* most lines read from the terminal in one run
MaxReads == 2

\* tool names as typed by the user
ToolArgs == { <<"k">>, <<" ","K">>, <<" ">> }

\* --target values: absent, blank, a local command, a remote URL, a
\* command line with an unclosed quote
TargetArgs == { None, Some(<<" ">>), Some(<<"x"," ">>),
                Some(<<"w","s",":","/","/","h">>), Some(<<"'","x">>) }

\* MCP_TARGET values: unset, blank, a local command
EnvValues == { None, Some(<<" ">>), Some(<<"z">>) }

Subjects == { "tool", "tools", "prompts" }

\* --param lists of exec: none, one pair, a pair without "=", an empty key
ExecParamLists == { <<>>, << <<"x","=","5">> >>, << <<"x">> >>, << <<" ","=","5">> >> }

\* --param-file: absent, a JSON path, a YAML path
ParamFiles == { None, Some(<<"p">>), Some(<<"p",".","Y","M","L">>) }

\* the root object of a well-formed parameter file: {"x": 7, "y": "v"}
FileObject ==
    [t |-> "object",
     entries |-> << [k |-> <<"x">>, v |-> JInt(<<"7">>)],
                    [k |-> <<"y">>, v |-> JString(<<"v">>)] >>]

Parsed(v) == [k |-> "ok", v |-> v]

\* a file that cannot be read
NoParamFile ==
    [readable |-> FALSE, yaml |-> [k |-> "parse_err"], json |-> [k |-> "parse_err"]]

\* what the file system and the parsers give for the parameter file
FsStates ==
    { NoParamFile,
      [readable |-> TRUE, yaml |-> [k |-> "conv_err"], json |-> [k |-> "parse_err"]],
      [readable |-> TRUE, yaml |-> Parsed(JArray(<<>>)), json |-> Parsed(JNull)],
      [readable |-> TRUE, yaml |-> Parsed(FileObject), json |-> Parsed(FileObject)] }

\* schema and tool descriptors as the session serializes them
Prop(name, ty) == [k |-> name, v |-> [t |-> "object", type |-> Some(ty)]]

Schema(required, props) ==
    [t |-> "object",
     required |-> Some(JArray([k \in 1..Len(required) |-> JString(required[k])])),
     properties |-> Some([t |-> "object", entries |-> props])]

Tool(name, snake, camel) ==
    [t |-> "object", name |-> Some(JString(name)),
     input_schema |-> snake, inputSchema |-> camel]

SchemaX == Schema(<< <<"x">> >>, << Prop(<<"x">>, "integer") >>)

\* "y" is required but not declared under properties
SchemaXY == Schema(<< <<"x">>, <<"y">> >>, << Prop(<<"x">>, "boolean") >>)

ToolsValue(tools) == [t |-> "object", tools |-> Some(JArray(tools))]

\* what list_tools can answer, after serde_json::to_value
ToolsResponses ==
    { ToolsValue(<<>>),
      ToolsValue(<< Tool(<<"K">>, None, Some(SchemaX)) >>),
      ToolsValue(<< Tool(<<"z">>, None, None), Tool(<<"k">>, Some(SchemaX), None) >>),
      ToolsValue(<< Tool(<<"k">>, None, Some(SchemaXY)) >>),
      ToolsValue(<< Tool(<<"k">>, Some(JNull), Some(SchemaX)) >>),
      ToolsValue(<< Tool(<<"K">>, None, None), Tool(<<"k">>, None, Some(SchemaX)) >>) }

\* what call_tool can answer: json is the result's serialization, None
\* when serde_json::to_value fails on it
CallResults ==
    { [id |-> "r1", json |-> Some([t |-> "object", content |-> "c1"])],
      [id |-> "r2", json |-> None] }

\* the messages of the errors call_tool can return
CallErrors == { <<"Mcp error: ", "j", "j">> }

\* lines the terminal can deliver to read_line: end of file, an empty
\* line, a value
StdinLines == { <<>>, <<"\n">>, <<" ","5","\n">> }

(* ------------------------------------------------------------------ *)
(* State                                                               *)
(* ------------------------------------------------------------------ *)

VARIABLES
    cmd,       \* the command that runs: "exec" or "fuzz"
    args,      \* ExecArgs / FuzzArgs as parsed from the command line
    env,       \* the MCP_TARGET environment variable
    fs,        \* the parameter file (and, for fuzz, the wordlist) on disk
    pc,        \* position of the run
    loc,       \* locals of execute_exec / execute_fuzz
    inv,       \* locals of invoke_tool
    log,       \* external operations done so far, in order
    out,       \* documents printed on standard output, in order
    ret        \* what the command returned, None while it runs

vars == <<cmd, args, env, fs, pc, loc, inv, log, out, ret>>

(* ------------------------------------------------------------------ *)
(* cmd/exec.rs: execute_exec up to the call of invoke_tool             *)
(* ------------------------------------------------------------------ *)

\* the document output_error prints on standard output
ErrorDoc(json, msg) ==
    IF json THEN [fmt |-> "json", status |-> "error", error |-> msg]
    ELSE [fmt |-> "human", panel |-> "Exec Error", error |-> msg]

\* "Determine target (CLI > env)" of execute_exec and execute_fuzz: the
\* trimmed effective target, None for "no target specified"
EffectiveTarget(target, envv) ==
    LET t == IF ~target.some /\ envv.some /\ Trim(envv.v) # <<>>
             THEN Some(envv.v) ELSE target
    IN  IF t.some /\ Trim(t.v) # <<>> THEN Some(Trim(t.v)) ELSE None

\* a collection that skips the pairs it cannot split
RECURSIVE CollectParamsSkipping(_, _)
CollectParamsSkipping(params, provided) ==
    IF params = <<>> THEN Ok(provided)
    ELSE LET sp == SplitOnce(Head(params), "=") IN
         IF ~sp.some \/ Trim(sp.v.k) = <<>>
         THEN CollectParamsSkipping(Tail(params), provided)
         ELSE CollectParamsSkipping(Tail(params),
                                    MapInsert(provided, Trim(sp.v.k), Trim(sp.v.v)))

\* the loop "Collect parameters from CLI" of execute_exec
RECURSIVE CollectParams(_, _)
CollectParams(params, provided) ==
    IF params = <<>> THEN Ok(provided)
    ELSE LET kv == Head(params)
             sp == SplitOnce(kv, "=")
         IN  IF ~sp.some
             THEN Err(<<"invalid --param (expected KEY=VALUE): ">> \o kv)
             ELSE IF Trim(sp.v.k) = <<>>
             THEN Err(<<"invalid --param (empty key): ">> \o kv)
             ELSE CollectParams(Tail(params),
                                MapInsert(provided, Trim(sp.v.k), Trim(sp.v.v)))

\* execute_exec before invoke_tool: "output_error" with the message it
\* prints, "propagate" for an error returned with "?", "go" with the
\* values invoke_tool is called with
ExecPrepare(a, envv, files) ==
    LET tool_name == Trim(a.tool)
        target    == EffectiveTarget(a.target, envv)
        parsed    == WithContext(parse_target(target.v),
                        <<"Failed to parse target: '">> \o target.v \o <<"'">>)
        cli       == CollectParams(a.params, EmptyMap)
        loaded    == load_param_file_into_map(a.param_file.v, files.param, cli.v)
        fail(m)   == [kind |-> "output_error", msg |-> m]
    IN  IF a.subject \notin {"tool", "tools"}
        THEN fail(<<"exec currently supports only subject 'tool'">>)
        ELSE IF tool_name = <<>> THEN fail(<<"tool name cannot be empty">>)
        ELSE IF ~target.some
        THEN fail(<<"no target specified (use --target or MCP_TARGET)">>)
        ELSE IF ~parsed.ok THEN [kind |-> "propagate", err |-> parsed]
        ELSE IF ~is_local(parsed.v) THEN fail(<<"remote exec not implemented yet">>)
        ELSE IF ~cli.ok THEN fail(ErrToString(cli))
        ELSE IF a.param_file.some /\ ~loaded.res.ok THEN fail(ErrToString(loaded.res))
        ELSE [kind |-> "go", tool_name |-> tool_name, target_raw |-> target.v,
              spec |-> parsed.v,
              provided |-> IF a.param_file.some THEN loaded.provided ELSE cli.v]

\* the deprecation notice execute_exec prints in human mode
Deprecation(a) ==
    IF a.subject = "tools" /\ ~a.json
    THEN << [fmt |-> "human", info |-> "Subject 'tools' is deprecated; use 'tool'"] >>
    ELSE <<>>

NoLocals == [tool_name |-> <<>>, target_raw |-> <<>>, spec |-> None,
             words |-> <<>>, i |-> 0, started |-> 0]

NoInvoke == [provided |-> EmptyMap, service |-> "none", tools_val |-> JNull,
             tool_obj |-> None, arg_obj |-> EmptyMap, call_result |-> None,
             result |-> None, reads |-> 0]

ExecStart ==
    /\ cmd = "exec" /\ pc = "start"
    /\ LET p == ExecPrepare(args, env, fs) IN
       CASE p.kind = "output_error" ->
              /\ out' = out \o Deprecation(args) \o <<ErrorDoc(args.json, p.msg)>>
              /\ ret' = Some(Err(p.msg))
              /\ pc' = "done"
              /\ UNCHANGED <<loc, inv>>
         [] p.kind = "propagate" ->
              /\ out' = out \o Deprecation(args)
              /\ ret' = Some(p.err)
              /\ pc' = "done"
              /\ UNCHANGED <<loc, inv>>
         [] p.kind = "go" ->
              /\ out' = out \o Deprecation(args)
              /\ loc' = [NoLocals EXCEPT !.tool_name = p.tool_name,
                                         !.target_raw = p.target_raw,
                                         !.spec = Some(p.spec),
                                         !.started = Len(log)]
              /\ inv' = [NoInvoke EXCEPT !.provided = p.provided]
              /\ pc' = "spawn"
              /\ UNCHANGED ret
    /\ UNCHANGED <<cmd, args, env, fs, log>>

(* ------------------------------------------------------------------ *)
(* cmd/exec.rs: invoke_tool                                            *)
(* ------------------------------------------------------------------ *)

\* an error return that keeps the session of the invocation instead of
\* dropping it
BailKeepsService(e) ==
    /\ inv' = [inv EXCEPT !.result = Some(e)]
    /\ pc' = "returned"

\* the early return of invoke_tool with error e: the session, if any, is
\* dropped without a cancel
Bail(e) ==
    /\ inv' = [inv EXCEPT !.result = Some(e),
                          !.service = IF inv.service = "running" THEN "dropped" ELSE @]
    /\ pc' = "returned"

\* Runtime::new, TokioChildProcess::new and serve (spawn and handshake)
Spawn ==
    /\ pc = "spawn"
    /\ \E o \in {"runtime_error", "spawn_error", "handshake_error", "ok"} :
         CASE o = "runtime_error" ->
                /\ Bail(WithContext(Err(<<"os error">>), <<"Failed to create Tokio runtime">>))
                /\ UNCHANGED log
           [] o = "spawn_error" ->
                /\ Bail(Err(<<"os error">>))
                /\ log' = Append(log, [op |-> "spawn", iter |-> loc.i, ok |-> FALSE,
                                        child |-> FALSE])
           [] o = "handshake_error" ->
                /\ Bail(WithContext(Err(<<"handshake error">>),
                            <<"Failed to spawn MCP process: ">> \o loc.spec.v.program))
                /\ log' = Append(log, [op |-> "spawn", iter |-> loc.i, ok |-> FALSE,
                                        child |-> TRUE])
           [] o = "ok" ->
                /\ inv' = [inv EXCEPT !.service = "running"]
                /\ pc' = "list"
                /\ log' = Append(log, [op |-> "spawn", iter |-> loc.i, ok |-> TRUE,
                                        child |-> TRUE])
    /\ UNCHANGED <<cmd, args, env, fs, loc, out, ret>>

\* ListTools with the "?" after list_tools replaced by unwrap_or_default:
\* a failed discovery goes on to the lookup with no tools
ListToolsUnwrapOrDefault ==
    /\ pc = "list"
    /\ \/ /\ inv' = [inv EXCEPT !.tools_val = JNull]
          /\ pc' = "resolve"
          /\ log' = Append(log, [op |-> "list_tools", iter |-> loc.i, ok |-> FALSE])
       \/ \E r \in ToolsResponses :
             /\ inv' = [inv EXCEPT !.tools_val = r]
             /\ pc' = "resolve"
             /\ log' = Append(log, [op |-> "list_tools", iter |-> loc.i, ok |-> TRUE])
    /\ UNCHANGED <<cmd, args, env, fs, loc, out, ret>>

\* service.list_tools(..).await.context("Failed to list tools")?
ListTools ==
    /\ pc = "list"
    /\ \/ /\ Bail(WithContext(Err(<<"transport error">>), <<"Failed to list tools">>))
          /\ log' = Append(log, [op |-> "list_tools", iter |-> loc.i, ok |-> FALSE])
       \/ \E r \in ToolsResponses :
             /\ inv' = [inv EXCEPT !.tools_val = r]
             /\ pc' = "resolve"
             /\ log' = Append(log, [op |-> "list_tools", iter |-> loc.i, ok |-> TRUE])
    /\ UNCHANGED <<cmd, args, env, fs, loc, out, ret>>

\* the error of a failed tool lookup
NotFound(tool_name) == Err(<<"tool '">> \o tool_name \o <<"' not found">>)

\* interactive: the flag invoke_tool is called with (false under fuzz)
Interactive == cmd = "exec" /\ args.interactive

\* find_tool_case_insensitive(..).ok_or_else(..)? and as_object()
Resolve ==
    /\ pc = "resolve"
    /\ LET found == find_tool_case_insensitive(inv.tools_val, loc.tool_name) IN
       IF ~found.some THEN Bail(NotFound(loc.tool_name))
       ELSE IF found.v.t # "object" THEN Bail(Err(<<"tool JSON is not an object">>))
       ELSE /\ inv' = [inv EXCEPT !.tool_obj = found]
            /\ pc' = IF Interactive THEN "prompt" ELSE "build"
    /\ UNCHANGED <<cmd, args, env, fs, loc, log, out, ret>>

\* tool_obj.get("input_schema").and_then(|v| v.as_object())
SchemaSnakeKey(tool_obj) == AsObject(tool_obj.input_schema)

\* the property prompt_for_missing_required prompts for next: the first
\* declared property that is required and not provided
PromptTarget(tool_obj, provided) ==
    LET schema   == SchemaSnakeKey(tool_obj)
        required == RequiredNames(schema)
        props    == SchemaProperties(schema)
        entries  == IF props.some THEN props.v ELSE <<>>
        todo     == { k \in 1..Len(entries) :
                        entries[k].k \in required /\ ~ContainsKey(provided, entries[k].k) }
    IN  IF todo = {} THEN None
        ELSE Some(entries[CHOOSE k \in todo : \A j \in todo : k <= j])

PromptDoc(p) == [fmt |-> "prompt", param |-> p.k, type |-> PropertyType(p.v)]

\* one pass of the loop of prompt_for_missing_required: print the prompt,
\* read a line, insert the trimmed value or print "(value required)"
PromptRead ==
    /\ pc = "prompt"
    /\ inv.reads < MaxReads
    /\ LET p == PromptTarget(inv.tool_obj.v, inv.provided) IN
       /\ p.some
       /\ \/ /\ Bail(Err(<<"io error">>))
             /\ out' = Append(out, PromptDoc(p.v))
          \/ \E line \in StdinLines :
                IF Trim(line) = <<>>
                THEN /\ inv' = [inv EXCEPT !.reads = @ + 1]
                     /\ out' = out \o <<PromptDoc(p.v), [fmt |-> "prompt_retry"]>>
                     /\ pc' = "prompt"
                ELSE /\ inv' = [inv EXCEPT !.reads = @ + 1,
                                           !.provided = MapInsert(@, p.v.k, Trim(line))]
                     /\ out' = Append(out, PromptDoc(p.v))
                     /\ pc' = "prompt"
    /\ UNCHANGED <<cmd, args, env, fs, loc, log, ret>>

\* prompt_for_missing_required returns Ok(())
PromptDone ==
    /\ pc = "prompt"
    /\ ~PromptTarget(inv.tool_obj.v, inv.provided).some
    /\ pc' = "build"
    /\ UNCHANGED <<cmd, args, env, fs, loc, inv, log, out, ret>>

\* build_arguments_from_schema(..).context("Failed to build arguments")?
Build ==
    /\ pc = "build"
    /\ LET r == WithContext(build_arguments_from_schema(inv.tool_obj.v, inv.provided),
                            <<"Failed to build arguments">>) IN
       IF ~r.ok THEN Bail(r)
       ELSE /\ inv' = [inv EXCEPT !.arg_obj = r.v]
            /\ pc' = "call"
    /\ UNCHANGED <<cmd, args, env, fs, loc, log, out, ret>>

\* a CallToolRequestParam whose arguments are always Some(arg_obj)
CallRequestAlwaysSome(tool_name, arg_obj) ==
    [name |-> tool_name, arguments |-> Some(arg_obj)]

\* a CallToolRequestParam that names the tool in lower case
CallRequestLowerName(tool_name, arg_obj) ==
    [name |-> ToAsciiLowercase(tool_name),
     arguments |-> IF DOMAIN arg_obj = {} THEN None ELSE Some(arg_obj)]

\* the CallToolRequestParam invoke_tool sends
CallRequest(tool_name, arg_obj) ==
    [name |-> tool_name,
     arguments |-> IF DOMAIN arg_obj = {} THEN None ELSE Some(arg_obj)]

\* the error invoke_tool returns when call_tool fails with message m
CallFailed(tool_name, m) ==
    WithContext(Err(m), <<"tool invocation failed: ">> \o tool_name)

\* service.call_tool(..).await.with_context(..)?
CallTool ==
    /\ pc = "call"
    /\ \/ \E m \in CallErrors :
             /\ Bail(CallFailed(loc.tool_name, m))
             /\ log' = Append(log, [op |-> "call_tool", iter |-> loc.i, ok |-> FALSE,
                                     req |-> CallRequest(loc.tool_name, inv.arg_obj),
                                     error |-> m])
       \/ \E r \in CallResults :
             /\ inv' = [inv EXCEPT !.call_result = Some(r)]
             /\ pc' = "cancel"
             /\ log' = Append(log, [op |-> "call_tool", iter |-> loc.i, ok |-> TRUE,
                                     req |-> CallRequest(loc.tool_name, inv.arg_obj),
                                     answer |-> r])
    /\ UNCHANGED <<cmd, args, env, fs, loc, out, ret>>

\* AfterCancel with "let _ =" replaced by "?": the error of cancel is
\* returned
AfterCancelPropagated(arg_obj, call_result, cancelled_ok) ==
    IF cancelled_ok THEN Ok([arguments |-> arg_obj, call_result |-> call_result])
    ELSE WithContext(Err(<<"join error">>), <<"Failed to cancel service">>)

\* what invoke_tool returns after the call succeeded and cancel ended
\* with cancelled_ok
AfterCancel(arg_obj, call_result, cancelled_ok) ==
    Ok([arguments |-> arg_obj, call_result |-> call_result])

\* let _ = service.cancel().await; Ok((arg_obj, call_result))
Cancel ==
    /\ pc = "cancel"
    /\ \E ok \in BOOLEAN :
         /\ inv' = [inv EXCEPT !.service = "cancelled",
                               !.result = Some(AfterCancel(inv.arg_obj, inv.call_result.v, ok))]
         /\ log' = Append(log, [op |-> "cancel", iter |-> loc.i, ok |-> ok])
    /\ pc' = "returned"
    /\ UNCHANGED <<cmd, args, env, fs, loc, out, ret>>

(* ------------------------------------------------------------------ *)
(* cmd/exec.rs: execute_exec after invoke_tool                         *)
(* ------------------------------------------------------------------ *)

\* serde_json::to_value(&call_result).unwrap_or_else(|_| json!({"error":"serialize"}))
RawResult(call_result) ==
    IF call_result.json.some THEN call_result.json.v
    ELSE [t |-> "object", error |-> "serialize"]

\* elapsed time, in external operations done since started
Elapsed == Len(log) - loc.started

\* the success document of execute_exec, JSON or human
ExecSuccessDoc(a, l, elapsed, r) ==
    LET base == [fmt |-> IF a.json THEN "json" ELSE "human", status |-> "ok",
                 subject |-> "tool", tool |-> l.tool_name, target |-> l.target_raw,
                 elapsed_ms |-> elapsed, arguments |-> r.arguments]
    IN  IF a.raw
        THEN base @@ [result |-> RawResult(r.call_result)]
        ELSE base @@ [result_summary |-> summarize_call_result(r.call_result)]

ExecReport ==
    /\ cmd = "exec" /\ pc = "returned"
    /\ LET r == inv.result.v IN
       IF r.ok
       THEN /\ out' = Append(out, ExecSuccessDoc(args, loc, Elapsed, r.v))
            /\ ret' = Some(Ok(TRUE))
       ELSE /\ out' = Append(out, ErrorDoc(args.json, ErrToString(r)))
            /\ ret' = Some(Err(ErrToString(r)))
    /\ pc' = "done"
    /\ UNCHANGED <<cmd, args, env, fs, loc, inv, log>>

(* ------------------------------------------------------------------ *)
(* cmd/fuzz.rs: execute_fuzz                                           *)
(* ------------------------------------------------------------------ *)

\* execute_fuzz before its loop
FuzzPrepare(a, envv, files) ==
    LET tool_name == Trim(a.tool)
        target    == EffectiveTarget(a.target, envv)
        parsed    == WithContext(parse_target(target.v),
                        <<"Failed to parse target: '">> \o target.v \o <<"'">>)
        fail(m)   == [kind |-> "output_error", msg |-> m]
    IN  IF a.subject # "tool"
        THEN fail(<<"fuzz currently supports only subject 'tool'">>)
        ELSE IF tool_name = <<>> THEN fail(<<"tool name cannot be empty">>)
        ELSE IF ~target.some
        THEN fail(<<"no target specified (use --target or MCP_TARGET)">>)
        ELSE IF ~parsed.ok THEN [kind |-> "propagate", err |-> parsed]
        ELSE IF ~is_local(parsed.v) THEN fail(<<"remote fuzz not implemented yet">>)
        ELSE IF ~files.words.some
        THEN [kind |-> "propagate",
              err |-> WithContext(Err(<<"os error">>),
                         <<"Failed to open wordlist file: ">> \o a.wordlist)]
        ELSE [kind |-> "go", tool_name |-> tool_name, target_raw |-> target.v,
              spec |-> parsed.v, words |-> files.words.v]

FuzzStart ==
    /\ cmd = "fuzz" /\ pc = "start"
    /\ LET p == FuzzPrepare(args, env, fs) IN
       CASE p.kind = "output_error" ->
              /\ out' = Append(out, ErrorDoc(args.json, p.msg))
              /\ ret' = Some(Err(p.msg))
              /\ pc' = "done"
              /\ UNCHANGED loc
         [] p.kind = "propagate" ->
              /\ ret' = Some(p.err)
              /\ pc' = "done"
              /\ UNCHANGED <<loc, out>>
         [] p.kind = "go" ->
              /\ out' = IF args.json THEN out
                        ELSE Append(out, [fmt |-> "human", info |-> "Starting fuzz session",
                                          total_requests |-> Len(p.words),
                                          tool |-> p.tool_name])
              /\ loc' = [NoLocals EXCEPT !.tool_name = p.tool_name,
                                         !.target_raw = p.target_raw,
                                         !.spec = Some(p.spec),
                                         !.words = p.words]
              /\ pc' = "loop"
              /\ UNCHANGED ret
    /\ UNCHANGED <<cmd, args, env, fs, inv, log>>

\* the loop "Collect parameters from CLI, substituting the placeholder"
RECURSIVE CollectSubstituted(_, _, _, _)
CollectSubstituted(params, placeholder, word, provided) ==
    IF params = <<>> THEN Ok(provided)
    ELSE LET kv == Head(params)
             substituted_kv == Replace(kv, placeholder, word)
             sp == SplitOnce(substituted_kv, "=")
         IN  IF ~sp.some
             THEN Err(<<"invalid --param (expected KEY=VALUE): ">> \o kv)
             ELSE IF Trim(sp.v.k) = <<>>
             THEN Err(<<"invalid --param (empty key): ">> \o kv)
             ELSE CollectSubstituted(Tail(params), placeholder, word,
                                     MapInsert(provided, Trim(sp.v.k), Trim(sp.v.v)))

\* the parameter map of one iteration: Ok(map), or the message that
\* output_error is called with
IterationParams(a, files, word) ==
    LET cli    == CollectSubstituted(a.params, a.placeholder, word, EmptyMap)
        loaded == load_param_file_into_map(a.param_file.v, files.param, cli.v)
    IN  IF ~cli.ok THEN cli
        ELSE IF ~a.param_file.some THEN cli
        ELSE IF ~loaded.res.ok THEN Err(ErrToString(loaded.res))
        ELSE Ok(loaded.provided)

\* the head of one pass of the loop, up to the call of invoke_tool
FuzzIteration ==
    /\ cmd = "fuzz" /\ pc = "loop"
    /\ loc.i < Len(loc.words)
    /\ LET p == IterationParams(args, fs, loc.words[loc.i + 1]) IN
       IF ~p.ok
       THEN /\ out' = Append(out, ErrorDoc(args.json, ErrToString(p)))
            /\ ret' = Some(Err(ErrToString(p)))
            /\ pc' = "done"
            /\ UNCHANGED <<loc, inv>>
       ELSE /\ loc' = [loc EXCEPT !.started = Len(log)]
            /\ inv' = [NoInvoke EXCEPT !.provided = p.v]
            /\ pc' = "spawn"
            /\ UNCHANGED <<out, ret>>
    /\ UNCHANGED <<cmd, args, env, fs, log>>

\* the record execute_fuzz prints for one iteration
FuzzRecord(a, l, elapsed, r) ==
    LET fmt  == IF a.json THEN "json" ELSE "human"
        word == l.words[l.i + 1]
    IN  IF r.ok
        THEN IF a.json
             THEN LET base == [fmt |-> fmt, status |-> "ok", request_index |-> l.i,
                               total_requests |-> Len(l.words), word |-> word,
                               tool |-> l.tool_name, target |-> l.target_raw,
                               elapsed_ms |-> elapsed, arguments |-> r.v.arguments]
                  IN  IF a.raw
                      THEN base @@ [result |-> RawResult(r.v.call_result)]
                      ELSE base @@ [result_summary |-> summarize_call_result(r.v.call_result)]
             ELSE [fmt |-> fmt, status |-> "ok", request |-> l.i + 1,
                   total_requests |-> Len(l.words), word |-> word,
                   result_summary |-> summarize_call_result(r.v.call_result)]
        ELSE IF a.json
             THEN [fmt |-> fmt, status |-> "error", request_index |-> l.i,
                   total_requests |-> Len(l.words), word |-> word,
                   error |-> ErrToString(r)]
             ELSE [fmt |-> fmt, status |-> "error", request |-> l.i + 1,
                   total_requests |-> Len(l.words), word |-> word,
                   error |-> ErrToString(r)]

\* the match on the result of invoke_tool, and the step to the next word
FuzzReport ==
    /\ cmd = "fuzz" /\ pc = "returned"
    /\ out' = Append(out, FuzzRecord(args, loc, Elapsed, inv.result.v))
    /\ loc' = [loc EXCEPT !.i = @ + 1]
    /\ pc' = "loop"
    /\ UNCHANGED <<cmd, args, env, fs, inv, log, ret>>

\* the loop ends: Ok(())
FuzzEnd ==
    /\ cmd = "fuzz" /\ pc = "loop"
    /\ loc.i = Len(loc.words)
    /\ ret' = Some(Ok(TRUE))
    /\ pc' = "done"
    /\ UNCHANGED <<cmd, args, env, fs, loc, inv, log, out>>

(* ------------------------------------------------------------------ *)
(* Specification of an exec run                                        *)
(* ------------------------------------------------------------------ *)

ExecArgs ==
    [subject : Subjects, tool : ToolArgs, params : ExecParamLists,
     param_file : ParamFiles, interactive : BOOLEAN, target : TargetArgs,
     json : BOOLEAN, raw : BOOLEAN]

NoWords == None

Init ==
    /\ cmd = "exec"
    /\ args \in ExecArgs
    /\ env \in EnvValues
    /\ fs \in { [param |-> f, words |-> NoWords] : f \in FsStates }
    /\ ~args.param_file.some => fs.param = NoParamFile
    /\ pc = "start"
    /\ loc = NoLocals
    /\ inv = NoInvoke
    /\ log = <<>>
    /\ out = <<>>
    /\ ret = None

Next ==
    \/ ExecStart
    \/ Spawn
    \/ ListTools
    \/ Resolve
    \/ PromptRead
    \/ PromptDone
    \/ Build
    \/ CallTool
    \/ Cancel
    \/ ExecReport

Spec == Init /\ [][Next]_vars

(* ------------------------------------------------------------------ *)
(* Specification of a fuzz run                                         *)
(* ------------------------------------------------------------------ *)

\* the default of --placeholder
DefaultPlaceholder == <<"F","U","Z","Z">>

\* --param lists of fuzz: the placeholder as value, as key, and in a pair
\* that has no "=" of its own
FuzzParamLists ==
    { << <<"x","=","F","U","Z","Z">> >>,
      << <<"F","U","Z","Z","=","1">> >>,
      << <<"x","F","U","Z","Z">> >> }

\* lines of the wordlist
Words == { <<"5">>, <<>>, <<"=","y">> }

RECURSIVE SeqsUpTo(_, _)
SeqsUpTo(S, n) ==
    IF n = 0 THEN { <<>> }
    ELSE LET shorter == SeqsUpTo(S, n - 1) IN
         shorter \cup { Append(q, e) : q \in shorter, e \in S }

\* the wordlist file: unreadable, or its lines
WordFiles == { None } \cup { Some(w) : w \in SeqsUpTo(Words, MaxWords) }

FuzzArgs ==
    [subject : {"tool", "tools"}, tool : { <<"k">>, <<" ">> }, wordlist : { <<"w">> },
     placeholder : { DefaultPlaceholder }, params : FuzzParamLists,
     param_file : { None, Some(<<"p">>) },
     target : { None, Some(<<"x"," ">>), Some(<<"w","s",":","/","/","h">>) },
     json : BOOLEAN, raw : BOOLEAN]

InitFuzz ==
    /\ cmd = "fuzz"
    /\ args \in FuzzArgs
    /\ env = None
    /\ fs \in { [param |-> f, words |-> w] : f \in FsStates, w \in WordFiles }
    /\ ~args.param_file.some => fs.param = NoParamFile
    /\ pc = "start"
    /\ loc = NoLocals
    /\ inv = NoInvoke
    /\ log = <<>>
    /\ out = <<>>
    /\ ret = None

NextFuzz ==
    \/ FuzzStart
    \/ FuzzIteration
    \/ Spawn
    \/ ListTools
    \/ Resolve
    \/ Build
    \/ CallTool
    \/ Cancel
    \/ FuzzReport
    \/ FuzzEnd

SpecFuzz == InitFuzz /\ [][NextFuzz]_vars

(* ------------------------------------------------------------------ *)
(* Specification of build_arguments_from_schema applied to its inputs  *)
(* ------------------------------------------------------------------ *)

\* most properties a schema declares
MaxProps == 2

BuildNames == { <<"x">>, <<"y">> }

BuildTypes == { "integer", "boolean", "number" }

\* the sequences of at most n entries over S with pairwise distinct keys
DistinctKeys(q) == \A i, j \in 1..Len(q) : i # j => q[i].k # q[j].k

BuildProps ==
    { q \in SeqsUpTo({ Prop(n, ty) : n \in BuildNames, ty \in BuildTypes }, MaxProps) :
        DistinctKeys(q) }

BuildRequired == { <<>>, << <<"x">> >>, << <<"y">> >>, << <<"x">>, <<"y">> >> }

BuildSchemas ==
    { JNull, [t |-> "object", required |-> None, properties |-> None] }
    \cup { Schema(r, q) : r \in BuildRequired, q \in BuildProps }

\* tool descriptors: no schema, or a schema under one of the two keys
BuildTools ==
    { Tool(<<"k">>, None, None) }
    \cup { Tool(<<"k">>, Some(sc), None) : sc \in BuildSchemas }
    \cup { Tool(<<"k">>, None, Some(sc)) : sc \in BuildSchemas }

\* raw parameter maps: any subset of the names, one raw value per name
ProvidedMaps ==
    UNION { [D -> { <<"5">>, <<"t">> }] : D \in SUBSET { <<"x">>, <<"y">>, <<"z">> } }

NoFiles == [param |-> NoParamFile, words |-> NoWords]

InitBuild ==
    /\ cmd = "build"
    /\ args \in [tool_obj : BuildTools, provided : ProvidedMaps]
    /\ env = None
    /\ fs = NoFiles
    /\ pc = "start"
    /\ loc = NoLocals
    /\ inv = NoInvoke
    /\ log = <<>>
    /\ out = <<>>
    /\ ret = None

\* one call of build_arguments_from_schema
ApplyBuild ==
    /\ cmd = "build" /\ pc = "start"
    /\ inv' = [NoInvoke EXCEPT !.provided = args.provided,
                               !.tool_obj = Some(args.tool_obj),
                               !.result = Some(build_arguments_from_schema(args.tool_obj,
                                                                          args.provided))]
    /\ pc' = "done"
    /\ UNCHANGED <<cmd, args, env, fs, loc, log, out, ret>>

NextBuild == ApplyBuild

SpecBuild == InitBuild /\ [][NextBuild]_vars

(* ------------------------------------------------------------------ *)
(* Specification of load_param_file_into_map applied to its inputs     *)
(* ------------------------------------------------------------------ *)

\* most entries of a parameter file
MaxEntries == 2

MergeKeys == { <<"x">>, <<"y">>, <<"z">> }

\* values of a parameter file: a string, a string with a quote, an
\* integer, a float, a boolean, null, an array, an object
FileValues ==
    { JString(<<"v">>), JString(<<"\"">>), JInt(<<"7">>), JFloat(<<"1",".","5">>),
      JBool(TRUE), JNull, JArray(<< JInt(<<"1">>), JString(<<"v">>) >>),
      [t |-> "object", entries |-> << [k |-> <<"x">>, v |-> JNull] >>] }

FileObjects ==
    { [t |-> "object", entries |-> q] :
        q \in { e \in SeqsUpTo({ [k |-> n, v |-> fv] : n \in MergeKeys, fv \in FileValues },
                               MaxEntries) : DistinctKeys(e) } }

\* parameter files: unreadable, unparsable, a root that is no object,
\* and the well-formed ones
MergeFiles ==
    { NoParamFile,
      [readable |-> TRUE, yaml |-> [k |-> "conv_err"], json |-> [k |-> "parse_err"]],
      [readable |-> TRUE, yaml |-> Parsed(JArray(<<>>)), json |-> Parsed(JNull)] }
    \cup { [readable |-> TRUE, yaml |-> Parsed(o), json |-> Parsed(o)] : o \in FileObjects }

\* maps holding the entries of the command line
CliMaps == UNION { [D -> { <<"o">> }] : D \in SUBSET { <<"x">>, <<"y">> } }

InitMerge ==
    /\ cmd = "merge"
    /\ args \in [path : { <<"p">>, <<"p",".","Y","M","L">> }, provided : CliMaps]
    /\ env = None
    /\ fs \in { [param |-> f, words |-> NoWords] : f \in MergeFiles }
    /\ pc = "start"
    /\ loc = NoLocals
    /\ inv = NoInvoke
    /\ log = <<>>
    /\ out = <<>>
    /\ ret = None

\* one call of load_param_file_into_map
ApplyMerge ==
    /\ cmd = "merge" /\ pc = "start"
    /\ LET r == load_param_file_into_map(args.path, fs.param, args.provided) IN
       inv' = [NoInvoke EXCEPT !.provided = r.provided, !.result = Some(r.res)]
    /\ pc' = "done"
    /\ UNCHANGED <<cmd, args, env, fs, loc, log, out, ret>>

NextMerge == ApplyMerge

SpecMerge == InitMerge /\ [][NextMerge]_vars

(* ------------------------------------------------------------------ *)
(* Specification of the parameter map of one fuzz iteration            *)
(* ------------------------------------------------------------------ *)

\* --param lists: the placeholder as value, as key, as both, in a pair
\* without "=", twice in one value, and a list of two pairs
SubstParamLists ==
    { << <<"x","=","F","U","Z","Z">> >>,
      << <<"F","U","Z","Z","=","1">> >>,
      << <<"F","U","Z","Z","=","F","U","Z","Z">> >>,
      << <<"x","F","U","Z","Z">> >>,
      << <<"x","=","F","U","Z","Z","-","F","U","Z","Z">> >>,
      << <<"F","U","Z","Z","=","1">>, <<"y","=","F","U","Z","Z">> >> }

\* the current word: plain words, the empty line, a word with "="
SubstWords == { <<"5">>, <<"x">>, <<"y">>, <<>>, <<"=","y">> }

\* root objects of the parameter file, with the placeholder in values
SubstObjects ==
    { [t |-> "object",
       entries |-> << [k |-> <<"x">>, v |-> JString(<<"F","U","Z","Z">>)],
                      [k |-> <<"y">>, v |-> JInt(<<"7">>)] >>],
      [t |-> "object",
       entries |-> << [k |-> <<"y">>, v |-> JString(<<"a","F","U","Z","Z">>)] >>],
      [t |-> "object", entries |-> <<>>] }

SubstFiles ==
    { NoParamFile }
    \cup { [readable |-> TRUE, yaml |-> Parsed(o), json |-> Parsed(o)] : o \in SubstObjects }

InitSubst ==
    /\ cmd = "substitute"
    /\ args \in [params : SubstParamLists, placeholder : { DefaultPlaceholder, <<"Z">> },
                 word : SubstWords, param_file : { None, Some(<<"p">>) }]
    /\ env = None
    /\ fs \in { [param |-> f, words |-> NoWords] : f \in SubstFiles }
    /\ ~args.param_file.some => fs.param = NoParamFile
    /\ pc = "start"
    /\ loc = NoLocals
    /\ inv = NoInvoke
    /\ log = <<>>
    /\ out = <<>>
    /\ ret = None

\* the parameter collection of one pass of the loop of execute_fuzz
ApplySubst ==
    /\ cmd = "substitute" /\ pc = "start"
    /\ ret' = Some(IterationParams(args, fs, args.word))
    /\ pc' = "done"
    /\ UNCHANGED <<cmd, args, env, fs, loc, inv, log, out>>

NextSubst == ApplySubst

SpecSubst == InitSubst /\ [][NextSubst]_vars

(* ------------------------------------------------------------------ *)
(* Specification of coerce_value over bounded raw strings              *)
(* ------------------------------------------------------------------ *)

MaxRawLen == 3

CoerceChars == { "5", "0", "-", "+", " ", "y", "N" }

\* raw strings given by name: the ends of the 64-bit range and their
\* neighbours, a longer digit string, and words in several cases
I64Max == I64MaxDigits

I64MaxPlus1 == I64MinDigits

I64Min == <<"-">> \o I64MinDigits

I64MinMinus1 == <<"-">> \o SubSeq(I64MinDigits, 1, 18) \o <<"9">>

NamedRaws ==
    { I64Max, I64MaxPlus1, I64Min, I64MinMinus1, <<"+">> \o I64Max, I64Max \o <<"0">>,
      <<"0","0">> \o I64Max,
      <<"4","2">>, <<"x","4","2">>, <<"4",".","2">>, <<"1","e","3">>,
      <<"t","r","u","e">>, <<"T","R","U","E">>, <<"t","R","u","E">>,
      <<"f","a","l","s","e">>, <<"F","a","l","s","e">>,
      <<"y","e","s">>, <<"Y","E","S">>, <<"n","o">>, <<"N","o">>, <<"1">>,
      <<"m","a","y","b","e">>, <<"t">>, <<"o","n">>, <<"t","r","u","e"," ">> }

RECURSIVE StringsUpTo(_, _)
StringsUpTo(S, n) ==
    IF n = 0 THEN { <<>> }
    ELSE LET shorter == StringsUpTo(S, n - 1) IN
         shorter \cup { Append(q, c) : q \in shorter, c \in S }

CoerceRaws == StringsUpTo(CoerceChars, MaxRawLen) \cup NamedRaws

TypeHints == { "integer", "boolean", "number", "string" }

InitCoerce ==
    /\ cmd = "coerce"
    /\ args \in [raw : CoerceRaws, type_hint : TypeHints]
    /\ env = None
    /\ fs = NoFiles
    /\ pc = "start"
    /\ loc = NoLocals
    /\ inv = NoInvoke
    /\ log = <<>>
    /\ out = <<>>
    /\ ret = None

\* one call of coerce_value
ApplyCoerce ==
    /\ cmd = "coerce" /\ pc = "start"
    /\ ret' = Some(coerce_value(args.raw, args.type_hint))
    /\ pc' = "done"
    /\ UNCHANGED <<cmd, args, env, fs, loc, inv, log, out>>

NextCoerce == ApplyCoerce

SpecCoerce == InitCoerce /\ [][NextCoerce]_vars

(* ------------------------------------------------------------------ *)
(* Specification of prompt_for_missing_required reading a stream       *)
(* ------------------------------------------------------------------ *)

\* most lines standard input holds before its end
MaxLines == 3

\* most reads of a run: two more than the stream has lines
MaxPromptReads == MaxLines + 2

\* lines of standard input: an empty line, a value between blanks, a value
StreamLines == { <<"\n">>, <<" ","5","\n">>, <<"y","\n">> }

PromptStreams == SeqsUpTo(StreamLines, MaxLines)

\* tools: two required properties, one required of two, and a schema that
\* is found under the camel-case key only
PromptTools ==
    { Tool(<<"k">>, Some(Schema(<< <<"x">>, <<"y">> >>,
                                << Prop(<<"x">>, "integer"), Prop(<<"y">>, "boolean") >>)), None),
      Tool(<<"k">>, Some(Schema(<< <<"y">> >>,
                                << Prop(<<"x">>, "integer"), Prop(<<"y">>, "boolean") >>)), None),
      Tool(<<"k">>, None, Some(SchemaX)) }

InitPrompt ==
    /\ cmd = "prompt"
    /\ args \in [tool_obj : PromptTools,
                 provided : { EmptyMap, MapInsert(EmptyMap, <<"x">>, <<"o">>) },
                 stdin : PromptStreams]
    /\ env = None
    /\ fs = NoFiles
    /\ pc = "prompt"
    /\ loc = NoLocals
    /\ inv = [NoInvoke EXCEPT !.provided = args.provided, !.tool_obj = Some(args.tool_obj),
                              !.service = "running"]
    /\ log = <<>>
    /\ out = <<>>
    /\ ret = None

\* what read_line gives at the current position of the stream: the next
\* line, or the empty string at the end of input
StreamLine == IF inv.reads < Len(args.stdin) THEN args.stdin[inv.reads + 1] ELSE <<>>

\* a pass of the loop that gives up at the end of input
PromptReadLineStopsAtEof ==
    /\ cmd = "prompt" /\ pc = "prompt"
    /\ inv.reads < MaxPromptReads
    /\ LET p == PromptTarget(inv.tool_obj.v, inv.provided) IN
       /\ p.some
       /\ \/ /\ Bail(Err(<<"io error">>))
             /\ out' = Append(out, PromptDoc(p.v))
          \/ IF StreamLine = <<>>
             THEN /\ Bail(Err(<<"unexpected end of input">>))
                  /\ out' = Append(out, PromptDoc(p.v))
             ELSE IF Trim(StreamLine) = <<>>
             THEN /\ inv' = [inv EXCEPT !.reads = @ + 1]
                  /\ out' = out \o <<PromptDoc(p.v), [fmt |-> "prompt_retry"]>>
                  /\ pc' = "prompt"
             ELSE /\ inv' = [inv EXCEPT !.reads = @ + 1,
                                        !.provided = MapInsert(@, p.v.k, Trim(StreamLine))]
                  /\ out' = Append(out, PromptDoc(p.v))
                  /\ pc' = "prompt"
    /\ UNCHANGED <<cmd, args, env, fs, loc, log, ret>>

\* one pass of the loop of prompt_for_missing_required on the stream:
\* print the prompt, read a line, insert the trimmed value or print
\* "(value required)"; read_line fails, or gives the line of the stream
PromptReadLine ==
    /\ cmd = "prompt" /\ pc = "prompt"
    /\ inv.reads < MaxPromptReads
    /\ LET p == PromptTarget(inv.tool_obj.v, inv.provided) IN
       /\ p.some
       /\ \/ /\ Bail(Err(<<"io error">>))
             /\ out' = Append(out, PromptDoc(p.v))
          \/ IF Trim(StreamLine) = <<>>
             THEN /\ inv' = [inv EXCEPT !.reads = @ + 1]
                  /\ out' = out \o <<PromptDoc(p.v), [fmt |-> "prompt_retry"]>>
                  /\ pc' = "prompt"
             ELSE /\ inv' = [inv EXCEPT !.reads = @ + 1,
                                        !.provided = MapInsert(@, p.v.k, Trim(StreamLine))]
                  /\ out' = Append(out, PromptDoc(p.v))
                  /\ pc' = "prompt"
    /\ UNCHANGED <<cmd, args, env, fs, loc, log, ret>>

NextPrompt ==
    \/ PromptReadLine
    \/ PromptDone

\* the loop runs on: a pass that can be made is made
SpecPrompt == InitPrompt /\ [][NextPrompt]_vars /\ WF_vars(NextPrompt)

(* ------------------------------------------------------------------ *)
(* Specification of parse_target over bounded target strings           *)
(* ------------------------------------------------------------------ *)

MaxPieces == 4

\* a double-quoted token that contains a blank
QuotedAB == <<"\"", "a", " ", "b", "\"">>

\* the pieces target strings are put together from
TargetPieces ==
    { <<" ">>, <<"w","s">>, <<"h","t","t","p">>, <<"f","t","p">>, <<"s">>,
      <<":","/","/","h">>, <<"/">>, <<"'">>, QuotedAB, <<" ","-","y">> }

RECURSIVE Flatten(_)
Flatten(pieces) ==
    IF pieces = <<>> THEN <<>> ELSE Head(pieces) \o Flatten(Tail(pieces))

TargetStrings == { Flatten(q) : q \in SeqsUpTo(TargetPieces, MaxPieces) }

InitTarget ==
    /\ cmd = "parse_target"
    /\ args \in [raw : TargetStrings]
    /\ env = None
    /\ fs = NoFiles
    /\ pc = "start"
    /\ loc = NoLocals
    /\ inv = NoInvoke
    /\ log = <<>>
    /\ out = <<>>
    /\ ret = None

\* one call of parse_target
ApplyTarget ==
    /\ cmd = "parse_target" /\ pc = "start"
    /\ ret' = Some(parse_target(args.raw))
    /\ pc' = "done"
    /\ UNCHANGED <<cmd, args, env, fs, loc, inv, log, out>>

NextTarget == ApplyTarget

SpecTarget == InitTarget /\ [][NextTarget]_vars

(* ------------------------------------------------------------------ *)
(* main.rs: main; cmd/list.rs: execute_list, list_tools;               *)
(* cmd/shared.rs: fetch_tools_local                                    *)
(* ------------------------------------------------------------------ *)

\* "Determine effective global target" of main
GlobalTarget(cli_target, envv) ==
    IF cli_target.some THEN cli_target
    ELSE IF envv.some /\ Trim(envv.v) # <<>> THEN envv ELSE None

\* main: validate the global target, hand it to the command that has no
\* --target of its own, dispatch
Main ==
    /\ cmd = "main" /\ pc = "main"
    /\ LET global_target == GlobalTarget(args.cli_target, env) IN
       IF global_target.some /\ ~parse_target(global_target.v).ok
       THEN /\ ret' = Some([ok |-> FALSE, exit |-> 2,
                            chain |-> << <<"Invalid target '">> \o global_target.v
                                         \o <<"': ">>
                                         \o ErrToString(parse_target(global_target.v)) >>])
            /\ pc' = "done"
            /\ UNCHANGED <<cmd, args>>
       ELSE /\ cmd' = args.command
            /\ args' = IF ~args.target.some THEN [args EXCEPT !.target = global_target]
                       ELSE args
            /\ pc' = "start"
            /\ UNCHANGED ret
    /\ UNCHANGED <<env, fs, loc, inv, log, out>>

\* the fallback to MCP_TARGET at the head of execute_list
ListTarget(target, envv) ==
    IF ~target.some /\ envv.some /\ Trim(envv.v) # <<>> THEN Some(envv.v) ELSE target

\* the documents list_tools and list_placeholder print without a session
ListNote(json, subject, target, note) ==
    IF json THEN [fmt |-> "json", status |-> "ok", subject |-> subject,
                  target |-> target, count |-> 0, note |-> note]
    ELSE [fmt |-> "human", subject |-> subject, target |-> target, count |-> 0,
          note |-> note]

\* execute_list and list_tools up to the call of fetch_tools_local
ListStart ==
    /\ cmd = "list" /\ pc = "start"
    /\ LET target == ListTarget(args.target, env)
           parsed == WithContext(parse_target(target.v),
                        <<"Failed to parse target: '">> \o target.v \o <<"'">>)
       IN  IF args.subject \notin {"tool", "tools"}
           THEN /\ out' = Append(out, ListNote(args.json, args.subject, None,
                                     "listing for this subject not implemented yet"))
                /\ ret' = Some(Ok(TRUE))
                /\ pc' = "done"
                /\ UNCHANGED loc
           ELSE IF ~target.some
           THEN /\ out' = Append(out, ListNote(args.json, "tools", None,
                                     "no target specified; use --target or MCP_TARGET"))
                /\ ret' = Some(Ok(TRUE))
                /\ pc' = "done"
                /\ UNCHANGED loc
           ELSE IF ~parsed.ok
           THEN /\ ret' = Some(parsed)
                /\ pc' = "done"
                /\ UNCHANGED <<loc, out>>
           ELSE IF ~is_local(parsed.v)
           THEN /\ out' = Append(out, ListNote(args.json, "tools", target,
                                     "remote tool enumeration not implemented yet"))
                /\ ret' = Some(Ok(TRUE))
                /\ pc' = "done"
                /\ UNCHANGED loc
           ELSE /\ loc' = [NoLocals EXCEPT !.target_raw = target.v,
                                           !.spec = Some(parsed.v)]
                /\ pc' = "fetch_spawn"
                /\ UNCHANGED <<out, ret>>
    /\ UNCHANGED <<cmd, args, env, fs, inv, log>>

\* fetch_tools_local: Runtime::new, then TokioChildProcess::new and serve
FetchSpawn ==
    /\ pc = "fetch_spawn"
    /\ \E o \in {"runtime_error", "spawn_error", "handshake_error", "ok"} :
         CASE o = "runtime_error" ->
                /\ Bail(WithContext(Err(<<"os error">>), <<"Failed to create Tokio runtime">>))
                /\ UNCHANGED <<loc, log>>
           [] o = "spawn_error" ->
                /\ Bail(Err(<<"os error">>))
                /\ loc' = [loc EXCEPT !.started = Len(log)]
                /\ log' = Append(log, [op |-> "spawn", iter |-> loc.i, ok |-> FALSE,
                                        child |-> FALSE])
           [] o = "handshake_error" ->
                /\ Bail(WithContext(Err(<<"handshake error">>),
                            <<"Failed to spawn MCP process: ">> \o loc.spec.v.program))
                /\ loc' = [loc EXCEPT !.started = Len(log)]
                /\ log' = Append(log, [op |-> "spawn", iter |-> loc.i, ok |-> FALSE,
                                        child |-> TRUE])
           [] o = "ok" ->
                /\ inv' = [inv EXCEPT !.service = "running"]
                /\ loc' = [loc EXCEPT !.started = Len(log)]
                /\ pc' = "fetch_list"
                /\ log' = Append(log, [op |-> "spawn", iter |-> loc.i, ok |-> TRUE,
                                        child |-> TRUE])
    /\ UNCHANGED <<cmd, args, env, fs, out, ret>>

\* service.list_tools(..).await.context("Failed to list tools from MCP service")?
FetchListTools ==
    /\ pc = "fetch_list"
    /\ \/ /\ Bail(WithContext(Err(<<"transport error">>),
                              <<"Failed to list tools from MCP service">>))
          /\ log' = Append(log, [op |-> "list_tools", iter |-> loc.i, ok |-> FALSE])
       \/ \E r \in ToolsResponses \cup {JNull} :
             /\ inv' = [inv EXCEPT !.tools_val = r]
             /\ pc' = "fetch_cancel"
             /\ log' = Append(log, [op |-> "list_tools", iter |-> loc.i, ok |-> TRUE])
    /\ UNCHANGED <<cmd, args, env, fs, loc, out, ret>>

\* the ToolList fetch_tools_local_async returns
ToolList(val, elapsed) ==
    [tools |-> IF ToolsArray(val).some THEN ToolsArray(val).v ELSE <<>>,
     elapsed_ms |-> elapsed]

\* let _ = service.cancel().await; and the construction of the ToolList
FetchCancel ==
    /\ pc = "fetch_cancel"
    /\ \E ok \in BOOLEAN :
         log' = Append(log, [op |-> "cancel", iter |-> loc.i, ok |-> ok])
    /\ inv' = [inv EXCEPT !.service = "cancelled",
                          !.result = Some(Ok(ToolList(inv.tools_val,
                                                      Len(log) + 1 - loc.started)))]
    /\ pc' = "returned"
    /\ UNCHANGED <<cmd, args, env, fs, loc, out, ret>>

\* the name list_tools prints for a tool
ListedName(t) ==
    IF GetName(t).some /\ AsStr(GetName(t).v).some THEN AsStr(GetName(t).v).v
    ELSE <<"<unnamed>">>

\* the listing list_tools prints (names only: descriptions and the
\* parameter column are left out)
Listing(a, l, tool_list) ==
    [fmt |-> IF a.json THEN "json" ELSE "human", status |-> "ok", subject |-> "tools",
     target |-> l.target_raw, elapsed_ms |-> tool_list.elapsed_ms,
     count |-> Len(tool_list.tools),
     tools |-> [k \in 1..Len(tool_list.tools) |-> ListedName(tool_list.tools[k])]]

\* list_tools after fetch_tools_local(&spec)?
ListReport ==
    /\ cmd = "list" /\ pc = "returned"
    /\ LET r == inv.result.v IN
       IF r.ok
       THEN /\ out' = Append(out, Listing(args, loc, r.v))
            /\ ret' = Some(Ok(TRUE))
       ELSE /\ ret' = Some(r)
            /\ UNCHANGED out
    /\ pc' = "done"
    /\ UNCHANGED <<cmd, args, env, fs, loc, inv, log>>

(* ------------------------------------------------------------------ *)
(* cmd/get.rs: execute_get, get_all_tools, get_single_tool,            *)
(* get_placeholder, interactive_select_tool                            *)
(* ------------------------------------------------------------------ *)

\* the documents get prints without a listing: no target, remote target,
\* no tools, subject not implemented ("tool": null, "count" and the empty
\* arrays are left out)
GetNote(json, subject, target, note) ==
    IF json THEN [fmt |-> "json", status |-> "ok", subject |-> subject,
                  target |-> target, note |-> note]
    ELSE [fmt |-> "human", subject |-> subject, target |-> target, note |-> note]

\* get_placeholder: the document has no target at all
get_placeholder(subject, json) ==
    IF json THEN [fmt |-> "json", status |-> "ok", subject |-> subject, count |-> 0,
                  note |-> "get for this subject not implemented yet"]
    ELSE [fmt |-> "human", subject |-> subject, count |-> 0,
          note |-> "get for this subject not implemented yet"]

\* execute_get, and get_all_tools / get_single_tool up to the call of
\* fetch_tools_local
GetStart ==
    /\ cmd = "get" /\ pc = "start"
    /\ LET target == ListTarget(args.target, env)
           subject == IF args.subject = "tools" THEN "tools" ELSE "tool"
           parsed == WithContext(parse_target(target.v),
                        <<"Failed to parse target: '">> \o target.v \o <<"'">>)
       IN  IF args.subject \notin {"tool", "tools"}
           THEN /\ out' = Append(out, get_placeholder(args.subject, args.json))
                /\ ret' = Some(Ok(TRUE))
                /\ pc' = "done"
                /\ UNCHANGED loc
           ELSE IF ~target.some
           THEN /\ out' = Append(out, GetNote(args.json, subject, None,
                                     "no target specified; use --target or MCP_TARGET"))
                /\ ret' = Some(Ok(TRUE))
                /\ pc' = "done"
                /\ UNCHANGED loc
           ELSE IF ~parsed.ok
           THEN /\ ret' = Some(parsed)
                /\ pc' = "done"
                /\ UNCHANGED <<loc, out>>
           ELSE IF ~is_local(parsed.v)
           THEN /\ out' = Append(out, GetNote(args.json, subject, target,
                                     IF subject = "tools"
                                     THEN "remote tool retrieval not implemented yet"
                                     ELSE "remote single-tool retrieval not implemented yet"))
                /\ ret' = Some(Ok(TRUE))
                /\ pc' = "done"
                /\ UNCHANGED loc
           ELSE /\ loc' = [NoLocals EXCEPT !.target_raw = target.v,
                                           !.spec = Some(parsed.v)]
                /\ pc' = "fetch_spawn"
                /\ UNCHANGED <<out, ret>>
    /\ UNCHANGED <<cmd, args, env, fs, inv, log>>

\* trimmed.parse::<usize>(): decimal digits after an optional "+"
ParseUsize(s) ==
    LET body == IF s # <<>> /\ Head(s) = "+" THEN Tail(s) ELSE s IN
    IF body = <<>> \/ ~IsDigits(body) THEN None ELSE Some(DigitsValue(body, 0))

\* what stdin can hold when get asks for a selection; <<>> is end of input
SelectLines == { <<>>, <<"2","\n">>, <<" ","K","\n">>, <<"j","\n">> }

SelectReads == { [ok |-> FALSE] } \cup { [ok |-> TRUE, line |-> l] : l \in SelectLines }

\* the menu interactive_select_tool prints on stdout before it reads
SelectMenu(tools) ==
    [fmt |-> "menu",
     names |-> [k \in 1..Len(tools) |-> ListedName(tools[k])]]

\* interactive_select_tool after the menu: rd is the outcome of read_line
interactive_select_tool(tools, rd) ==
    IF ~rd.ok THEN Err(<<"io error">>)
    ELSE LET trimmed == Trim(rd.line)
             idx == ParseUsize(trimmed)
         IN  IF idx.some /\ idx.v >= 1 /\ idx.v <= Len(tools)
             THEN Ok(ListedName(tools[idx.v]))
             ELSE IF trimmed = <<>> THEN Err(<<"invalid selection">>)
             ELSE Ok(trimmed)

\* "Locate tool" of get_single_tool: the first tool whose name matches
LocateTool(tools, final_name) ==
    LET hits == { k \in 1..Len(tools) : NameMatches(tools[k], final_name) } IN
    IF hits = {} THEN None
    ELSE Some(tools[CHOOSE k \in hits : \A j \in hits : k <= j])

\* the document of get_single_tool for a tool that is not in the listing
GetNotFound(json, final_name, target) ==
    IF json THEN [fmt |-> "json", status |-> "error", error |-> "tool not found",
                  requested |-> final_name, subject |-> "tool", target |-> target]
    ELSE [fmt |-> "human", requested |-> final_name, note |-> "not found"]

\* the document of get_single_tool for the tool it found (the parameter
\* table is left out)
GetTool(json, target, elapsed, final_name, tool_obj) ==
    IF json THEN [fmt |-> "json", status |-> "ok", subject |-> "tool", target |-> target,
                  elapsed_ms |-> elapsed, name |-> final_name, tool |-> tool_obj]
    ELSE [fmt |-> "human", subject |-> "tool", target |-> target,
          elapsed_ms |-> elapsed, name |-> final_name, tool |-> tool_obj]

\* get_single_tool after fetch_tools_local(&spec)? returned a listing:
\* the documents it prints and the Result it returns
GetSingle(a, l, tool_list, rd) ==
    LET tools == tool_list.tools
        picked == IF a.name.some THEN Ok(a.name.v)
                  ELSE interactive_select_tool(tools, rd)
        menu == IF a.name.some THEN <<>> ELSE <<SelectMenu(tools)>>
    IN  IF tools = <<>>
        THEN [docs |-> <<GetNote(a.json, "tool", Some(l.target_raw), "no tools")>>,
              ret |-> Ok(TRUE)]
        ELSE IF ~picked.ok THEN [docs |-> menu, ret |-> picked]
        ELSE IF ~LocateTool(tools, picked.v).some
        THEN [docs |-> Append(menu, GetNotFound(a.json, picked.v, l.target_raw)),
              ret |-> Ok(TRUE)]
        ELSE [docs |-> Append(menu, GetTool(a.json, l.target_raw, tool_list.elapsed_ms,
                                            picked.v, LocateTool(tools, picked.v).v)),
              ret |-> Ok(TRUE)]

\* the listing get_all_tools prints (names only: descriptions and the
\* parameter tables are left out)
GetListing(a, l, tool_list) ==
    [fmt |-> IF a.json THEN "json" ELSE "human", status |-> "ok", subject |-> "tools",
     target |-> l.target_raw, elapsed_ms |-> tool_list.elapsed_ms,
     count |-> Len(tool_list.tools),
     tools |-> [k \in 1..Len(tool_list.tools) |-> ListedName(tool_list.tools[k])]]

\* get_all_tools and get_single_tool after fetch_tools_local(&spec)?
GetReport ==
    /\ cmd = "get" /\ pc = "returned"
    /\ LET r == inv.result.v IN
       IF ~r.ok
       THEN /\ ret' = Some(r)
            /\ UNCHANGED out
       ELSE IF args.subject = "tools"
       THEN /\ out' = Append(out, GetListing(args, loc, r.v))
            /\ ret' = Some(Ok(TRUE))
       ELSE \E rd \in SelectReads :
              /\ out' = out \o GetSingle(args, loc, r.v, rd).docs
              /\ ret' = Some(GetSingle(args, loc, r.v, rd).ret)
    /\ pc' = "done"
    /\ UNCHANGED <<cmd, args, env, fs, loc, inv, log>>

(* ------------------------------------------------------------------ *)
(* Specification of the program from main                              *)
(* ------------------------------------------------------------------ *)

\* command lines: the global --target, the command, and the command's
\* own arguments with its own --target
MainArgs ==
    [command : {"exec"}, cli_target : TargetArgs, subject : {"tool"}, tool : { <<"k">> },
     params : { <<>> }, param_file : { None }, interactive : BOOLEAN,
     target : TargetArgs, json : BOOLEAN, raw : { FALSE }]
    \cup [command : {"list"}, cli_target : TargetArgs, subject : {"tools", "prompts"},
          target : TargetArgs, json : BOOLEAN]
    \cup [command : {"get"}, cli_target : { None }, subject : {"tools", "tool", "prompts"},
          name : { None, Some(<<"k">>), Some(<<"j">>) },
          target : TargetArgs, json : BOOLEAN]

InitMain ==
    /\ cmd = "main"
    /\ args \in MainArgs
    /\ env \in EnvValues
    /\ fs = NoFiles
    /\ pc = "main"
    /\ loc = NoLocals
    /\ inv = NoInvoke
    /\ log = <<>>
    /\ out = <<>>
    /\ ret = None

NextMain ==
    \/ Main
    \/ ExecStart
    \/ Spawn
    \/ ListTools
    \/ Resolve
    \/ PromptRead
    \/ PromptDone
    \/ Build
    \/ CallTool
    \/ Cancel
    \/ ExecReport
    \/ ListStart
    \/ FetchSpawn
    \/ FetchListTools
    \/ FetchCancel
    \/ ListReport
    \/ GetStart
    \/ GetReport

SpecMain == InitMain /\ [][NextMain]_vars

(* ------------------------------------------------------------------ *)
(* Properties of one invocation (invoke_tool)                          *)
(* ------------------------------------------------------------------ *)

InIteration(e) == e.iter = loc.i

\* the external operations of the current invocation, in order
InvocationTrace == SelectSeq(log, InIteration)

OpOrder == <<"spawn", "list_tools", "call_tool", "cancel">>

\* the invocation has returned an error
InvocationFailed == inv.result.some /\ ~inv.result.v.ok

\* C1: within one run of invoke_tool the external operations occur only
\* in the order spawn, list_tools, call_tool, cancel, each one only after
\* the one before it succeeded; call_tool is issued only with the tool
\* resolved and the arguments built; after a failure the invocation is
\* Failed and no later step is entered.
C1_OperationOrder ==
    LET tr == InvocationTrace IN
    /\ Len(tr) <= Len(OpOrder)
    /\ \A k \in 1..Len(tr) : tr[k].op = OpOrder[k] /\ (k < Len(tr) => tr[k].ok)
    /\ pc = "list" => Len(tr) = 1 /\ tr[1].ok
    /\ pc \in {"resolve", "prompt", "build", "call"} => Len(tr) = 2 /\ tr[2].ok
    /\ pc = "cancel" => Len(tr) = 3 /\ tr[3].ok
    /\ Len(tr) >= 3 =>
          /\ inv.tool_obj.some
          /\ NameMatches(inv.tool_obj.v, loc.tool_name)
          /\ build_arguments_from_schema(inv.tool_obj.v, inv.provided) = Ok(inv.arg_obj)
          /\ tr[3].req = CallRequest(loc.tool_name, inv.arg_obj)
    /\ InvocationFailed =>
          /\ pc \in {"returned", "done"}
          /\ inv.service # "cancelled"
          /\ tr = <<>> \/ ~tr[Len(tr)].ok \/ Len(tr) = 2

\* a run that went through all four operations
C1_Witness ==
    /\ pc = "done"
    /\ Len(log) = 4
    /\ \A k \in 1..4 : log[k].op = OpOrder[k] /\ log[k].ok

\* the arguments built from the resolved tool and the merged parameters
BuiltArguments == build_arguments_from_schema(inv.tool_obj.v, inv.provided).v

\* C4: if call_tool succeeded, invoke_tool returns success with exactly
\* that call result and the built arguments, whether cancel succeeds or
\* fails, and exec reports that success.
C4_CancelErrorSwallowed ==
    \A k \in 1..Len(log) :
       (log[k].op = "call_tool" /\ log[k].ok /\ pc \in {"returned", "done"}) =>
          /\ inv.result = Some(Ok([arguments |-> BuiltArguments,
                                   call_result |-> log[k].answer]))
          /\ pc = "done" =>
                /\ ret = Some(Ok(TRUE))
                /\ out[Len(out)].status = "ok"
                /\ out[Len(out)].arguments = BuiltArguments
                /\ IF args.raw
                   THEN out[Len(out)].result = RawResult(log[k].answer)
                   ELSE out[Len(out)].result_summary = summarize_call_result(log[k].answer)

\* a reported run whose call succeeded and whose cancel failed
C4_Witness ==
    /\ pc = "done"
    /\ Len(log) = 4
    /\ log[3].op = "call_tool" /\ log[3].ok
    /\ log[4].op = "cancel" /\ ~log[4].ok

(* ------------------------------------------------------------------ *)
(* Properties of the error reports of exec                             *)
(* ------------------------------------------------------------------ *)

\* the innermost message of the error invoke_tool returned
RootCause == inv.result.v.chain[Len(inv.result.v.chain)]

\* the message exec printed last
ReportedError == out[Len(out)].error

\* C6: when an exec invocation fails with a resolution error, the
\* reported message contains the offending name: the requested tool name
\* for tool-not-found, the parameter's name for a missing required
\* parameter.
C6_ResolutionErrorNamesOffender ==
    (cmd = "exec" /\ pc = "done" /\ InvocationFailed) =>
       /\ StartsWith(RootCause, <<"tool '">>) => Contains(ReportedError, loc.tool_name)
       /\ StartsWith(RootCause, <<"missing required parameter: ">>) =>
             Contains(ReportedError, Tail(RootCause))

\* C7: when call_tool returns an error, the reported message contains the
\* underlying error's message verbatim, preceded by context that names
\* the tool.
C7_CallErrorVerbatim ==
    \A k \in 1..Len(log) :
       (cmd = "exec" /\ pc = "done" /\ log[k].op = "call_tool" /\ ~log[k].ok) =>
          \E j \in 1..Len(ReportedError) :
             /\ Contains(SubSeq(ReportedError, 1, j), loc.tool_name)
             /\ StartsWith(SubSeq(ReportedError, j + 1, Len(ReportedError)), log[k].error)

\* the declared properties of a schema that are required and not in map m
MissingDeclared(tool_obj, m) ==
    LET schema   == SchemaBothKeys(tool_obj)
        required == RequiredNames(schema)
        props    == SchemaProperties(schema)
        entries  == IF props.some THEN props.v ELSE <<>>
    IN  { entries[k].k : k \in { j \in 1..Len(entries) :
                                   entries[j].k \in required
                                   /\ ~ContainsKey(m, entries[j].k) } }

\* C8: in interactive exec mode, when the prompting step has returned,
\* the map holds every declared required property of the resolved tool's
\* schema, under either key variant of the schema, so that the build does
\* not fail with a missing required parameter.
C8_PromptCoversRequired ==
    (Interactive /\ inv.tool_obj.some /\ pc \in {"build", "call"}) =>
       /\ MissingDeclared(inv.tool_obj.v, inv.provided) = {}
       /\ build_arguments_from_schema(inv.tool_obj.v, inv.provided).ok

(* ------------------------------------------------------------------ *)
(* Properties of build_arguments_from_schema                           *)
(* ------------------------------------------------------------------ *)

\* C5: for every tool schema and every parameter map,
\* build_arguments_from_schema either fails or returns a result that
\* contains every name of the schema's required array, declared under
\* properties or not.
C5_RequiredPresentOrFail ==
    (cmd = "build" /\ pc = "done" /\ inv.result.v.ok) =>
       RequiredNames(SchemaBothKeys(args.tool_obj)) \subseteq DOMAIN inv.result.v.v

(* ------------------------------------------------------------------ *)
(* Properties of load_param_file_into_map                              *)
(* ------------------------------------------------------------------ *)

\* the text a file value is expected to be inserted as: a string as it
\* is, any other value as its JSON text
ExpectedText(v) ==
    CASE v = JString(<<"v">>) -> <<"v">>
      [] v = JString(<<"\"">>) -> <<"\"">>
      [] v = JInt(<<"7">>) -> <<"7">>
      [] v = JFloat(<<"1",".","5">>) -> <<"1",".","5">>
      [] v = JBool(TRUE) -> <<"t","r","u","e">>
      [] v = JNull -> <<"n","u","l","l">>
      [] v.t = "array" -> <<"[","1",",","\"","v","\"","]">>
      [] v.t = "object" -> <<"{","\"","x","\"",":","n","u","l","l","}">>

\* the entries of the file that was merged
MergedEntries == fs.param.json.v.entries

\* C9: merging a parameter file into a map that holds CLI entries never
\* changes the value of a key already present; every file key not
\* present is added, a string verbatim and any other value as its JSON
\* text; the resulting key set is the union of the CLI and file keys.
C9_MergeKeepsCliAddsFile ==
    (cmd = "merge" /\ pc = "done" /\ inv.result.v.ok) =>
       /\ \A k \in DOMAIN args.provided : inv.provided[k] = args.provided[k]
       /\ \A j \in 1..Len(MergedEntries) :
             MergedEntries[j].k \notin DOMAIN args.provided =>
                inv.provided[MergedEntries[j].k] = ExpectedText(MergedEntries[j].v)
       /\ DOMAIN inv.provided =
             DOMAIN args.provided \cup { MergedEntries[j].k : j \in 1..Len(MergedEntries) }

\* a merge of a file that holds a key of the command line and a new key
\* with a string value
C9_Witness ==
    /\ cmd = "merge" /\ pc = "done" /\ inv.result.v.ok
    /\ \E i, j \in 1..Len(MergedEntries) :
          /\ MergedEntries[i].k \in DOMAIN args.provided
          /\ MergedEntries[i].v # JString(args.provided[MergedEntries[i].k])
          /\ MergedEntries[j].k \notin DOMAIN args.provided
          /\ MergedEntries[j].v.t = "string"

(* ------------------------------------------------------------------ *)
(* Properties of the choice of the target                              *)
(* ------------------------------------------------------------------ *)

Blank(o) == ~o.some \/ Trim(o.v) = <<>>

\* the first of the command's --target, the global --target and
\* MCP_TARGET that is neither absent nor blank
ClaimedTarget ==
    IF ~Blank(args.target) THEN args.target
    ELSE IF ~Blank(args.cli_target) THEN args.cli_target
    ELSE IF ~Blank(env) THEN env
    ELSE None

\* both the command's --target and the global --target are given, with
\* different values
TwoExplicit ==
    ~Blank(args.target) /\ ~Blank(args.cli_target) /\ args.target # args.cli_target

\* the run ended the way a run without any target ends
NoTargetOutcome ==
    /\ pc = "done"
    /\ \/ /\ cmd = "exec"
          /\ ret.some /\ ~ret.v.ok
          /\ ErrToString(ret.v) = <<"no target specified (use --target or MCP_TARGET)">>
       \/ /\ cmd = "list"
          /\ ret = Some(Ok(TRUE))
          /\ out # <<>> /\ "note" \in DOMAIN out[Len(out)]
          /\ out[Len(out)].note = "no target specified; use --target or MCP_TARGET"

\* the run ended on a target that was rejected
TargetRejected ==
    /\ pc = "done" /\ ret.some /\ ~ret.v.ok
    /\ \/ StartsWith(ErrToString(ret.v), <<"Invalid target '">>)
       \/ StartsWith(ErrToString(ret.v), <<"Failed to parse target: '">>)

\* two local targets that run the same command line
SameCommand(a, b) ==
    /\ a.variant = "LocalCommand" /\ b.variant = "LocalCommand"
    /\ a.program = b.program /\ a.args = b.args

\* C10: the effective target is the explicit option first, the
\* environment variable as fallback, and a blank value from either
\* source counts as absent: with a blank option and a non-blank
\* MCP_TARGET the run uses the environment target, and with all of them
\* blank it ends as a run without a target.
C10_BlankTargetIsAbsent ==
    (pc \notin {"main", "start"} /\ args.subject \in {"tool", "tools"} /\ ~TwoExplicit) =>
       IF ~ClaimedTarget.some THEN NoTargetOutcome
       ELSE /\ ~NoTargetOutcome
            /\ IF parse_target(ClaimedTarget.v).ok
               THEN /\ ~TargetRejected
                    /\ is_local(parse_target(ClaimedTarget.v).v) =>
                          /\ loc.spec.some
                          /\ SameCommand(loc.spec.v, parse_target(ClaimedTarget.v).v)
               ELSE TargetRejected

(* ------------------------------------------------------------------ *)
(* Properties of a fuzz run                                            *)
(* ------------------------------------------------------------------ *)

\* C2: across fuzzing iterations no iteration spawns its child before
\* the cancel of every earlier iteration that established a session has
\* completed, whether that iteration succeeded or failed.
C2_CancelBeforeNextSpawn ==
    \A p \in 1..Len(log) :
       log[p].op = "spawn" =>
          \A q \in 1..(p - 1) :
             (log[q].op = "spawn" /\ log[q].ok) =>
                \E c \in (q + 1)..(p - 1) :
                   log[c].op = "cancel" /\ log[c].iter = log[q].iter

IsIterationRecord(d) == "word" \in DOMAIN d

\* the zero-based index a record carries (human records count from 1)
RecordIndex(d) == IF d.fmt = "json" THEN d.request_index ELSE d.request - 1

\* C3: for a wordlist of N entries the fuzz driver emits exactly N
\* per-iteration records, with indices 0..N-1 in wordlist order and total
\* N on each, whatever fails in an iteration.
C3_OneRecordPerWord ==
    (cmd = "fuzz" /\ pc = "done" /\ loc.spec.some) =>
       LET recs == SelectSeq(out, IsIterationRecord) IN
       /\ Len(recs) = Len(loc.words)
       /\ \A k \in 1..Len(recs) :
             /\ RecordIndex(recs[k]) = k - 1
             /\ recs[k].total_requests = Len(loc.words)
             /\ recs[k].word = loc.words[k]



\* the documents on standard output that have the JSON error shape
JsonErrorDocs ==
    { k \in 1..Len(out) : /\ "fmt" \in DOMAIN out[k] /\ out[k].fmt = "json"
                          /\ "status" \in DOMAIN out[k] /\ out[k].status = "error"
                          /\ "error" \in DOMAIN out[k] }

\* the command returned an Err (or main exited non-zero)
CommandFailed == ret.some /\ ~ret.v.ok

\* something failed in the run: the command returned an error, an error
\* document was printed, or the invocation / listing session failed
RunFailed ==
    \/ CommandFailed
    \/ JsonErrorDocs # {}
    \/ inv.result.some /\ ~inv.result.v.ok

\* C11: when exec or get runs in JSON mode and anything fails, the finished
\* command has both printed a document with status "error" and an error
\* message on standard output and returned a failure.
C11_JsonFailurePrintsAndFails ==
    (pc = "done" /\ cmd \in {"exec", "get"} /\ args.json /\ RunFailed)
        => (JsonErrorDocs # {} /\ CommandFailed)

\* C12: once an invocation that reached invoke_tool has been reported, the
\* report carries the elapsed time of the invocation, whether the
\* invocation succeeded or failed.
C12_ElapsedReportedAlways ==
    (pc = "done" /\ inv.result.some)
        => /\ out # <<>>
           /\ "elapsed_ms" \in DOMAIN out[Len(out)]
           /\ out[Len(out)].elapsed_ms = Elapsed

\* C14: every JSON document with status "ok" on standard output has an
\* elapsed_ms field, the placeholder documents included.
C14_OkDocHasElapsed ==
    \A k \in 1..Len(out) :
        ("fmt" \in DOMAIN out[k] /\ out[k].fmt = "json"
            /\ "status" \in DOMAIN out[k] /\ out[k].status = "ok")
        => "elapsed_ms" \in DOMAIN out[k]


\* positions of the log that record operation op of iteration j
EventsOf(op, j) == { p \in 1..Len(log) : log[p].op = op /\ log[p].iter = j }

\* the positions of invoke_tool at which it owns a running session
SessionOpen == pc \in {"list", "resolve", "prompt", "build", "call", "cancel"}

\* C13: a run holds a child session only inside the one invocation that
\* spawned it, each invocation spawns at most one child and issues at most
\* one list_tools and one call_tool, each after the spawn of its own
\* invocation, and the operations of a fuzz iteration are all recorded
\* before the first operation of the next one.
C13_OneChildOneRequest ==
    /\ inv.service = "running" => SessionOpen
    /\ \A j \in 0..loc.i :
          /\ Cardinality(EventsOf("spawn", j)) <= 1
          /\ Cardinality(EventsOf("list_tools", j)) <= 1
          /\ Cardinality(EventsOf("call_tool", j)) <= 1
          /\ \A q \in EventsOf("list_tools", j) \cup EventsOf("call_tool", j) :
                \E p \in EventsOf("spawn", j) : p < q /\ log[p].ok
          /\ \A q \in EventsOf("call_tool", j) :
                \E p \in EventsOf("list_tools", j) : p < q /\ log[p].ok
    /\ \A p \in 1..Len(log) :
          /\ log[p].iter <= loc.i
          /\ \A q \in p..Len(log) : log[p].iter <= log[q].iter

\* the second iteration of a fuzz run holds its session and is about to
\* call the tool, after the first iteration spawned a child of its own
C13_Witness ==
    /\ cmd = "fuzz" /\ pc = "call" /\ loc.i = 1 /\ inv.service = "running"
    /\ \E p \in EventsOf("spawn", 0) : log[p].ok
    /\ EventsOf("spawn", 1) # {}


\* the call_tool requests of the run
CallEvents == { p \in 1..Len(log) : log[p].op = "call_tool" }

\* C15: every call_tool request carries no arguments payload when the
\* argument object built from the schema and the provided parameters is
\* empty, and carries exactly that object otherwise; an empty object is
\* never sent.
C15_ArgumentsOmittedWhenEmpty ==
    \A p \in CallEvents :
        /\ log[p].req.arguments # Some(EmptyMap)
        /\ IF DOMAIN BuiltArguments = {}
           THEN ~log[p].req.arguments.some
           ELSE log[p].req.arguments = Some(BuiltArguments)

\* a request was sent for a tool whose built argument object is empty
C15_Witness ==
    \E p \in CallEvents :
        /\ DOMAIN BuiltArguments = {}
        /\ ~log[p].req.arguments.some
        /\ log[p].req.name = loc.tool_name


\* the report of an invocation has the fields of a success
FullReport(d) ==
    /\ d.status = "ok"
    /\ "arguments" \in DOMAIN d
    /\ "result" \in DOMAIN d \/ "result_summary" \in DOMAIN d

\* the report of an invocation has the fields of a failure only
FailedReport(d) ==
    /\ d.status = "error"
    /\ "error" \in DOMAIN d
    /\ DOMAIN d \cap {"arguments", "result", "result_summary"} = {}

\* C16: when an invocation has been reported, either invoke_tool returned
\* the arguments together with the call result and the report has status
\* ok with the arguments and the result, or invoke_tool failed and the
\* report is an error that has neither an arguments nor a result field.
C16_NoPartialSuccess ==
    (cmd = "fuzz" /\ pc = "loop" /\ inv.result.some)
        => LET d == out[Len(out)] IN
           IF inv.result.v.ok
           THEN /\ DOMAIN inv.result.v.v = {"arguments", "call_result"}
                /\ FullReport(d)
                /\ d.arguments = inv.result.v.v.arguments
           ELSE FailedReport(d)


\* the tools of the discovered listing
Discovered == IF ToolsArray(inv.tools_val).some THEN ToolsArray(inv.tools_val).v ELSE <<>>

\* the positions of the discovered tools whose name is a string equal to
\* the requested name when both are lower-cased
Candidates ==
    { k \in 1..Len(Discovered) :
        /\ Discovered[k].t = "object"
        /\ Discovered[k].name.some
        /\ Discovered[k].name.v.t = "string"
        /\ ToAsciiLowercase(Discovered[k].name.v.s) = ToAsciiLowercase(loc.tool_name) }

\* the listing was received and the lookup has been made
LookedUp ==
    /\ pc \notin {"list", "resolve"}
    /\ \E p \in 1..Len(log) : log[p].op = "list_tools" /\ log[p].ok

\* C17: after the lookup, the resolved descriptor is the first discovered
\* tool whose name equals the requested name without regard to ASCII case
\* whenever there is such a tool; when there is none no descriptor is
\* resolved, the invocation fails with "tool '<name>' not found" and no
\* call_tool request is issued.
C17_LookupFirstMatchOrNotFound ==
    /\ inv.tool_obj.some
          => /\ Candidates # {}
             /\ inv.tool_obj.v = Discovered[CHOOSE k \in Candidates :
                                               \A j \in Candidates : k <= j]
    /\ (LookedUp /\ Candidates # {}) => inv.tool_obj.some
    /\ (LookedUp /\ Candidates = {})
          => /\ ~inv.tool_obj.some
             /\ inv.result = Some(Err(<<"tool '">> \o loc.tool_name \o <<"' not found">>))
             /\ CallEvents = {}

\* the requested name matched two discovered tools and the first of them,
\* whose name differs in case, was resolved
C17_Witness ==
    /\ LookedUp
    /\ Cardinality(Candidates) = 2
    /\ inv.tool_obj = Some(Discovered[1])
    /\ Discovered[1].name.v.s # loc.tool_name


\* parse_target has been applied to the target string
Parsed1 == cmd = "parse_target" /\ pc = "done"

HttpSchemes == { <<"h","t","t","p">>, <<"h","t","t","p","s">> }

WsSchemes == { <<"w","s">>, <<"w","s","s">> }

\* s is certainly a URL of a scheme other than http, https, ws, wss: a
\* scheme, "://", and a host of letters and digits, followed by nothing or
\* by a path
UrlOfOtherScheme(s) ==
    LET n    == SchemeLen(s)
        rest == Drop(s, n + 1)
        host == TakeAuthority(Drop(rest, 2))
    IN  /\ n > 0
        /\ ToAsciiLowercase(SubSeq(s, 1, n)) \notin HttpSchemes \cup WsSchemes
        /\ Len(rest) >= 3 /\ rest[1] = "/" /\ rest[2] = "/"
        /\ host # <<>>
        /\ \A k \in 1..Len(host) : IsAlpha(host[k]) \/ DigitVal(host[k]) >= 0

\* the result of parse_target is a RemoteUrl
IsRemoteUrl(r) == r.ok /\ r.v.variant = "RemoteUrl"

\* the result of parse_target is a LocalCommand
IsLocalCommand(r) == r.ok /\ r.v.variant = "LocalCommand"

\* C18 as stated: RemoteUrl exactly for the URLs of the four schemes,
\* classified by scheme; a URL of any other scheme is parsed into a local
\* command and is never an error; a blank input fails with the "empty"
\* error.
C18_RemoteIffKnownScheme ==
    Parsed1 =>
        LET t == Trim(args.raw)
            r == ret.v
        IN  /\ t = <<>> => (~r.ok /\ r.chain = << <<"Target string is empty">> >>)
            /\ IsRemoteUrl(r) <=> (t # <<>> /\ RemoteScheme(t).some)
            /\ IsRemoteUrl(r) =>
                  /\ r.v.scheme \in HttpSchemes \cup WsSchemes
                  /\ kind(r.v) = IF r.v.scheme \in HttpSchemes THEN "RemoteHttp"
                                 ELSE "RemoteWs"
                  /\ is_remote(r.v) /\ ~is_local(r.v)
            /\ UrlOfOtherScheme(t) => IsLocalCommand(r)

\* C18 amended: a URL of any other scheme is handed to local command
\* parsing: the result is never a RemoteUrl, it is the LocalCommand of the
\* input's shell tokens when the input splits, and the shell-splitting
\* error when it does not (an unclosed quote).
C18_OtherSchemeFallsThrough ==
    Parsed1 =>
        LET t == Trim(args.raw)
            r == ret.v
        IN  /\ t = <<>> => (~r.ok /\ r.chain = << <<"Target string is empty">> >>)
            /\ IsRemoteUrl(r) <=> (t # <<>> /\ RemoteScheme(t).some)
            /\ IsRemoteUrl(r) =>
                  /\ r.v.scheme \in HttpSchemes \cup WsSchemes
                  /\ kind(r.v) = IF r.v.scheme \in HttpSchemes THEN "RemoteHttp"
                                 ELSE "RemoteWs"
                  /\ is_remote(r.v) /\ ~is_local(r.v)
            /\ UrlOfOtherScheme(t) =>
                  IF shell_split(t).ok
                  THEN IsLocalCommand(r) /\ is_local(r.v)
                  ELSE /\ ~r.ok
                       /\ Head(r.chain) =
                            <<"Failed to parse local command line (shell splitting)">>

\* a URL of the scheme ftp with a path was parsed into a local command
C18_Witness ==
    /\ Parsed1
    /\ args.raw = <<"f","t","p",":","/","/","h","/","s">>
    /\ IsLocalCommand(ret.v)
    /\ ret.v.v.program = args.raw

\* C19: every LocalCommand parse_target returns has a non-empty program
\* that is the first shell token of the trimmed input and args that are the
\* remaining tokens in their order; a double-quoted token with a blank in
\* it is one element.
C19_ProgramAndArgsAreTokens ==
    (Parsed1 /\ IsLocalCommand(ret.v)) =>
        LET tokens == shell_split(Trim(args.raw)) IN
        /\ tokens.ok
        /\ ret.v.v.program # <<>>
        /\ <<ret.v.v.program>> \o ret.v.v.args = tokens.v
        /\ args.raw = <<"s", " ", "-", "y", " ">> \o QuotedAB
              => /\ ret.v.v.program = <<"s">>
                 /\ ret.v.v.args = << <<"-", "y">>, <<"a", " ", "b">> >>

\* a command line with a quoted argument and a plain one was parsed
C19_Witness ==
    /\ Parsed1
    /\ args.raw = <<"s", " ", "-", "y", " ">> \o QuotedAB
    /\ IsLocalCommand(ret.v)
    /\ Len(ret.v.v.args) = 2


\* a --param pair with every occurrence of the placeholder replaced by the
\* current word, split at its first "="
SubstitutedPair(i) == SplitOnce(Replace(args.params[i], args.placeholder, args.word), "=")

SubstitutedKey(i) == Trim(SubstitutedPair(i).v.k)

\* every substituted pair has a "=" and a key
CliWellFormed ==
    \A i \in 1..Len(args.params) :
        SubstitutedPair(i).some /\ SubstitutedKey(i) # <<>>

CliKeys == { SubstitutedKey(i) : i \in 1..Len(args.params) }

\* the entries of the parameter file that is loaded
SubstFileEntries ==
    IF args.param_file.some /\ fs.param.readable THEN fs.param.json.v.entries ELSE <<>>

\* the text of a file value as the file holds it
SubstFileText(v) == IF v.t = "string" THEN v.s ELSE <<"7">>

\* C20: in the parameter map of an iteration every CLI pair appears with
\* the placeholder replaced by the word in its key and in its value alike,
\* the replacement being made before the split at the first "="; every
\* file entry whose key is not a substituted CLI key appears with the text
\* of the file, placeholder included, and a file entry whose key is a
\* substituted CLI key is skipped.
C20_SubstituteBeforeSplit ==
    (cmd = "substitute" /\ pc = "done") =>
        LET p == ret.v IN
        /\ ~CliWellFormed => ~p.ok
        /\ p.ok =>
              /\ \A i \in 1..Len(args.params) :
                    /\ SubstitutedKey(i) \in DOMAIN p.v
                    /\ (\A j \in (i + 1)..Len(args.params) :
                            SubstitutedKey(j) # SubstitutedKey(i))
                          => p.v[SubstitutedKey(i)] = Trim(SubstitutedPair(i).v.v)
              /\ \A e \in 1..Len(SubstFileEntries) :
                    /\ SubstFileEntries[e].k \in DOMAIN p.v
                    /\ SubstFileEntries[e].k \notin CliKeys
                          => p.v[SubstFileEntries[e].k] =
                                SubstFileText(SubstFileEntries[e].v)
              /\ DOMAIN p.v = CliKeys \cup
                    { SubstFileEntries[e].k : e \in 1..Len(SubstFileEntries) }
        /\ (/\ args.params = << <<"F","U","Z","Z","=","F","U","Z","Z">> >>
            /\ args.placeholder = DefaultPlaceholder
            /\ args.param_file.some
            /\ Len(SubstFileEntries) = 2)
              => /\ args.word = <<"x">>
                    => p = Ok((<<"x">> :> <<"x">>) @@ (<<"y">> :> <<"7">>))
                 /\ args.word = <<"5">>
                    => p = Ok((<<"5">> :> <<"5">>) @@ (<<"x">> :> <<"F","U","Z","Z">>)
                              @@ (<<"y">> :> <<"7">>))
                 /\ args.word = <<"=","y">> => ~p.ok

\* the pair FUZZ=FUZZ was substituted with the word x, and the file's
\* entry for x, whose text is the placeholder, was skipped
C20_Witness ==
    /\ cmd = "substitute" /\ pc = "done"
    /\ args.params = << <<"F","U","Z","Z","=","F","U","Z","Z">> >>
    /\ args.placeholder = DefaultPlaceholder
    /\ args.word = <<"x">>
    /\ args.param_file.some /\ Len(SubstFileEntries) = 2
    /\ ret.v.ok
    /\ ret.v.v[<<"x">>] = <<"x">>


\* coerce_value has been applied with the type hint h
Coerced(h) == cmd = "coerce" /\ pc = "done" /\ args.type_hint = h

\* s without its sign
Unsigned(s) == IF s # <<>> /\ Head(s) \in {"+", "-"} THEN Tail(s) ELSE s

\* s is an optional sign and at least one digit
IsIntegerText(s) == Unsigned(s) # <<>> /\ IsDigits(Unsigned(s))

\* the integer text s denotes a value of the 64-bit range: it has fewer
\* than 19 significant digits, or it is one of the named 19-digit strings
\* of the range
InI64Range(s) ==
    \/ Len(StripZeros(Unsigned(s))) < 19
    \/ s \in { I64Max, I64Min, <<"+">> \o I64Max, <<"0","0">> \o I64Max }

\* the canonical decimal text of the value of the integer text s
CanonicalInt(s) ==
    LET mag == StripZeros(Unsigned(s)) IN
    IF mag = <<>> THEN <<"0">>
    ELSE IF Head(s) = "-" THEN <<"-">> \o mag ELSE mag

\* C21: coerce_value with the hint "integer" gives the JSON number n when
\* the raw string is the text of a 64-bit signed integer n, and the raw
\* string unchanged as a JSON string for every other input, digit strings
\* outside the range included.
C21_IntegerOrRawString ==
    Coerced("integer") =>
        /\ IF IsIntegerText(args.raw) /\ InI64Range(args.raw)
           THEN ret.v = JInt(CanonicalInt(args.raw))
           ELSE ret.v = JString(args.raw)
        /\ args.raw = <<"4","2">> => ret.v = JInt(<<"4","2">>)
        /\ args.raw = <<"x","4","2">> => ret.v = JString(<<"x","4","2">>)
        /\ args.raw = <<"-","0">> => ret.v = JInt(<<"0">>)
        /\ args.raw = <<"+","0","5">> => ret.v = JInt(<<"5">>)
        /\ args.raw = <<" ","5">> => ret.v = JString(<<" ","5">>)
        /\ args.raw = I64Max => ret.v = JInt(I64Max)
        /\ args.raw = I64Min => ret.v = JInt(I64Min)
        /\ args.raw = I64MaxPlus1 => ret.v = JString(I64MaxPlus1)
        /\ args.raw = I64MinMinus1 => ret.v = JString(I64MinMinus1)

\* a digit string one past i64::MAX was kept as a string
C21_Witness ==
    /\ Coerced("integer")
    /\ args.raw = I64MaxPlus1
    /\ ret.v = JString(I64MaxPlus1)

\* the raw string with its ASCII upper-case letters lower-cased
Lowered(s) == [k \in 1..Len(s) |-> ToAsciiLowerChar(s[k])]

TrueWords == { <<"t","r","u","e">>, <<"1">>, <<"y","e","s">>, <<"y">> }

FalseWords == { <<"f","a","l","s","e">>, <<"0">>, <<"n","o">>, <<"n">> }

\* C22: coerce_value with the hint "boolean" gives true when the
\* lower-cased raw string is one of true, 1, yes, y, false when it is one
\* of false, 0, no, n, and the raw string unchanged, in its original case,
\* as a JSON string for every other input.
C22_BooleanWordsOrRawString ==
    Coerced("boolean") =>
        /\ ret.v = IF Lowered(args.raw) \in TrueWords THEN JBool(TRUE)
                   ELSE IF Lowered(args.raw) \in FalseWords THEN JBool(FALSE)
                   ELSE JString(args.raw)
        /\ args.raw = <<"N","o">> => ret.v = JBool(FALSE)
        /\ args.raw = <<"t","R","u","E">> => ret.v = JBool(TRUE)
        /\ args.raw = <<"m","a","y","b","e">> => ret.v = JString(args.raw)

\* the word YES in upper case was coerced to true
C22_Witness ==
    /\ Coerced("boolean")
    /\ args.raw = <<"Y","E","S">>
    /\ ret.v = JBool(TRUE)


\* C23: the value a successful exec run shows for the call result is the
\* value the other setting of --raw would show for the same result: under
\* --raw it equals the summary, without --raw it equals the raw value.
C23_SummaryEqualsRaw ==
    (cmd = "exec" /\ pc = "done" /\ inv.result.some /\ inv.result.v.ok) =>
        LET d == out[Len(out)]
            answer == inv.call_result.v
        IN  IF args.raw
            THEN d.result = summarize_call_result(answer)
            ELSE d.result_summary = RawResult(answer)


\* the strings listed in the required array of the schema of tool_obj
ListedRequired(tool_obj) ==
    LET schema == SchemaBothKeys(tool_obj) IN
    IF schema.some /\ schema.v.required.some /\ schema.v.required.v.t = "array"
    THEN { schema.v.required.v.a[k].s :
             k \in { j \in 1..Len(schema.v.required.v.a) :
                       schema.v.required.v.a[j].t = "string" } }
    ELSE {}

\* the entries declared under properties of the schema of tool_obj
DeclaredEntries(tool_obj) ==
    IF SchemaProperties(SchemaBothKeys(tool_obj)).some
    THEN SchemaProperties(SchemaBothKeys(tool_obj)).v ELSE <<>>

\* the declared and required properties that the provided map lacks
AbsentRequired ==
    { DeclaredEntries(args.tool_obj)[k].k :
        k \in { j \in 1..Len(DeclaredEntries(args.tool_obj)) :
                  /\ DeclaredEntries(args.tool_obj)[j].k \in ListedRequired(args.tool_obj)
                  /\ DeclaredEntries(args.tool_obj)[j].k \notin DOMAIN args.provided } }

\* build_arguments_from_schema has been applied
Built == cmd = "build" /\ pc = "done"

DeclaredNames ==
    { DeclaredEntries(args.tool_obj)[j].k : j \in 1..Len(DeclaredEntries(args.tool_obj)) }

\* C26: when build_arguments_from_schema succeeds the result has exactly
\* the keys of the provided map, every provided key that is not a declared
\* property maps to its raw value as a JSON string, and the provided map
\* is what it was before the call.
C26_KeysPreservedExtrasPassThrough ==
    (Built /\ inv.result.v.ok) =>
        /\ DOMAIN inv.result.v.v = DOMAIN args.provided
        /\ \A n \in (DOMAIN args.provided) \ DeclaredNames :
              inv.result.v.v[n] = JString(args.provided[n])
        /\ inv.provided = args.provided

\* a build succeeded on a map with a declared key and an undeclared one,
\* for a schema that declares a property the map does not have
C26_Witness ==
    /\ Built /\ inv.result.v.ok
    /\ <<"z">> \in DOMAIN args.provided
    /\ DeclaredNames = { <<"x">>, <<"y">> }
    /\ DOMAIN args.provided = { <<"x">>, <<"z">> }
    /\ inv.result.v.v[<<"z">>] = JString(args.provided[<<"z">>])


\* C27: when load_param_file_into_map returns an error, for a file that
\* cannot be read or parsed or whose root is no object, the parameter map
\* is the map the call was given.
C27_ErrorLeavesMapUnchanged ==
    (cmd = "merge" /\ pc = "done" /\ ~inv.result.v.ok) =>
        inv.provided = args.provided

\* the load of a file whose root is no object failed on a map that holds
\* two entries of the command line
C27_Witness ==
    /\ cmd = "merge" /\ pc = "done"
    /\ inv.result.v = Err(<<"param file root must be an object">>)
    /\ DOMAIN args.provided = { <<"x">>, <<"y">> }
    /\ inv.provided = args.provided


\* the target exec is given: --target, or MCP_TARGET when there is no
\* --target and the variable is not blank
GivenTarget ==
    IF args.target.some THEN args.target
    ELSE IF env.some /\ Trim(env.v) # <<>> THEN env ELSE None

NoTargetGiven == ~GivenTarget.some \/ Trim(GivenTarget.v) = <<>>

\* the given target cannot be parsed, or is a URL
TargetUnusable ==
    /\ ~NoTargetGiven
    /\ \/ ~parse_target(Trim(GivenTarget.v)).ok
       \/ parse_target(Trim(GivenTarget.v)).v.variant = "RemoteUrl"

\* some --param has no "=" or has an empty key
ParamMalformed ==
    \E i \in 1..Len(args.params) :
        \/ Find(args.params[i], "=") = 0
        \/ Trim(SubSeq(args.params[i], 1, Find(args.params[i], "=") - 1)) = <<>>

\* what the parser chosen by the file's extension gives for the file
ParamFileValue ==
    IF args.param_file.v = <<"p",".","Y","M","L">> THEN fs.param.yaml ELSE fs.param.json

\* the parameter file cannot be read or parsed, or its root is no object
ParamFileUnusable ==
    /\ args.param_file.some
    /\ \/ ~fs.param.readable
       \/ ParamFileValue.k # "ok"
       \/ ParamFileValue.v.t # "object"

InputInvalid ==
    \/ Trim(args.tool) = <<>>
    \/ NoTargetGiven
    \/ TargetUnusable
    \/ ParamMalformed
    \/ ParamFileUnusable

\* C25: an exec run whose input is invalid (empty tool name, no target, a
\* remote or unparseable target, a malformed --param, an unusable parameter
\* file) never spawns a child and never issues list_tools or call_tool; it
\* ends with the error.
C25_NoSpawnOnInvalidInput ==
    (cmd = "exec" /\ InputInvalid) =>
        /\ log = <<>>
        /\ inv.service = "none"
        /\ pc \in {"start", "done"}
        /\ pc = "done" => CommandFailed

\* a run with a usable target and well-formed parameters ended on a
\* parameter file whose root is no object, without any operation
C25_Witness ==
    /\ cmd = "exec" /\ pc = "done"
    /\ ParamFileUnusable
    /\ fs.param.readable
    /\ Trim(args.tool) # <<>> /\ ~NoTargetGiven /\ ~TargetUnusable /\ ~ParamMalformed
    /\ args.subject = "tool"
    /\ log = <<>>
    /\ CommandFailed


\* target strings of every kind: URLs of the four schemes in both cases,
\* URLs of other schemes, command lines
KindSamples ==
    { <<"h","t","t","p",":","/","/","h">>, <<"H","T","T","P","S",":","/","/","h">>,
      <<"w","s",":","/","/","h">>, <<"w","s","s",":","/","/","h","/","x">>,
      <<"f","t","p",":","/","/","h">>, <<"x",":","/","/","h">>,
      <<"x">>, <<"x"," ","y">>, <<" ","h","t","t","p"," ">> }

\* the target strings of the run: the global and the command's own
\* --target and MCP_TARGET
RunTargets ==
    { o.v : o \in { t \in { args.target, env,
                            IF "cli_target" \in DOMAIN args THEN args.cli_target ELSE None } :
                      t.some } }

\* exactly one of is_local and is_remote holds, and the kind is known
KindDecided(spec) ==
    /\ is_local(spec) # is_remote(spec)
    /\ kind(spec) \in {"LocalProcess", "RemoteHttp", "RemoteWs"}
    /\ is_local(spec) <=> spec.variant = "LocalCommand"

\* positions of the log that record a spawn
SpawnEvents == { p \in 1..Len(log) : log[p].op = "spawn" }

\* C28: every TargetSpec parse_target returns is either local or remote,
\* never both, never neither and never of kind Unknown; and a run of exec,
\* list or get spawns a process only when its target was parsed into a
\* LocalCommand, never when it was parsed into a RemoteUrl.
C28_KindDecidedSpawnOnlyLocal ==
    /\ \A t \in KindSamples \cup RunTargets :
          parse_target(t).ok => KindDecided(parse_target(t).v)
    /\ (SpawnEvents # {} \/ pc \in {"spawn", "fetch_spawn"})
          => /\ loc.spec.some
             /\ loc.spec.v.variant = "LocalCommand"
             /\ is_local(loc.spec.v) /\ ~is_remote(loc.spec.v)
    /\ (pc = "done" /\ cmd \in {"exec", "list", "get"} /\ args.target.some
          /\ parse_target(Trim(args.target.v)).ok
          /\ parse_target(Trim(args.target.v)).v.variant = "RemoteUrl")
          => SpawnEvents = {}

\* an exec run on a ws:// target ended without a spawn
C28_Witness ==
    /\ cmd = "exec" /\ pc = "done"
    /\ args.target = Some(<<"w","s",":","/","/","h">>)
    /\ is_remote(parse_target(args.target.v).v)
    /\ SpawnEvents = {}
    /\ CommandFailed


\* the name field of the descriptor the lookup resolved
ResolvedName == inv.tool_obj.v.name.v.s

\* C29: every call_tool request names the tool by the requested name,
\* trimmed and otherwise as typed; the name of the resolved descriptor
\* equals it up to ASCII case and is not what is sent when the two differ.
C29_RequestUsesTypedName ==
    \A p \in CallEvents :
        /\ log[p].req.name = Trim(args.tool)
        /\ inv.tool_obj.some
        /\ Lowered(ResolvedName) = Lowered(log[p].req.name)

\* a request was sent under the typed name K for a descriptor named k
C29_Witness ==
    \E p \in CallEvents :
        /\ args.tool = <<" ", "K">>
        /\ log[p].req.name = <<"K">>
        /\ ResolvedName = <<"k">>


\* the loop of prompt_for_missing_required is prompting for parameter n
Prompting(n) ==
    /\ cmd = "prompt" /\ pc = "prompt"
    /\ PromptTarget(inv.tool_obj.v, inv.provided) # None
    /\ PromptTarget(inv.tool_obj.v, inv.provided).v.k = n

\* the stream still holds a line that is not blank
ValueAhead ==
    \E j \in (inv.reads + 1)..Len(args.stdin) : Trim(args.stdin[j]) # <<>>

\* the stream is at its end
AtEof == inv.reads >= Len(args.stdin)

\* the read failed and prompt_for_missing_required returned its error
ReadFailed == pc = "returned" /\ inv.result = Some(Err(<<"io error">>))

PromptNames == { <<"x">>, <<"y">> }

\* the loop for n is left only with the trimmed, non-empty line just read
\* inserted for n, or with a read error
LeftByValueOrError(n) ==
    (Prompting(n) /\ ~Prompting(n)') =>
        \/ /\ n \notin DOMAIN inv.provided
           /\ n \in DOMAIN inv'.provided
           /\ inv'.provided[n] = Trim(StreamLine)
           /\ inv'.provided[n] # <<>>
           /\ \A m \in DOMAIN inv.provided : inv'.provided[m] = inv.provided[m]
        \/ ReadFailed'

\* at the end of input a pass of the loop for n prompts for n again with
\* the map unchanged, unless the read fails
EofPromptsAgain(n) ==
    (Prompting(n) /\ AtEof) =>
        \/ Prompting(n)' /\ inv'.provided = inv.provided
        \/ ReadFailed'

\* C30: the prompt loop for a missing required parameter is left only by
\* inserting the trimmed non-empty line for that parameter or by a read
\* error; while a non-blank line is still to come the loop is left in the
\* end; at the end of input every read gives an empty line and the loop
\* prompts again, so it is never left there except by a read error.
C30_PromptLoopExits ==
    /\ [][\A n \in PromptNames : LeftByValueOrError(n) /\ EofPromptsAgain(n)]_vars
    /\ \A n \in PromptNames : (Prompting(n) /\ ValueAhead) ~> ~Prompting(n)

\* the loop read past the end of the input twice and still prompts for y
C30_Witness ==
    /\ Prompting(<<"y">>)
    /\ inv.reads >= Len(args.stdin) + 2
    /\ <<"y">> \notin DOMAIN inv.provided

====
